---------------------------- MODULE Spec2Model ----------------------------
(***************************************************************************)
(* habitipy: the dynamic API-path resolver and request dispatcher          *)
(* (src/habitipy/api.py, src/habitipy/async.py).                           *)
(*                                                                         *)
(* Strings are TLA+ strings; Len, SubSeq and \o act on them character by   *)
(* character, so str.rstrip, str.replace, str.split and str.join are       *)
(* computed, not assumed.                                                  *)
(***************************************************************************)
EXTENDS Integers, Sequences, FiniteSets, TLC

VARIABLES
    apis,       \* the descriptor list handed to Habitipy(conf, apis=...)
    strict,     \* Habitipy._strict of the cursor in hand
    phase,      \* "new" before __init__, "ready" after it, "failed" when it raised
    tree,       \* Habitipy._apis: the root ApiNode, shared by every cursor
    current,    \* Habitipy._current of the cursor in hand (pathSoFar)
    node,       \* Habitipy._node of the cursor in hand (currentNode)
    result,     \* what the last operation did: its inputs and its outcome
    netCalls,   \* number of calls made to the transport so far
    placed,     \* descriptors the outer loop of _make_apis_dict has done
    written,    \* what the author of the apiDoc text declared, line by line
    lines,      \* text.split('\n') in parse_apidoc
    lineno,     \* lines the loop of parse_apidoc has done
    app,        \* the TasksChange application in hand and what it has done
    content,    \* the server's content, Content._cache, CONTENT_JSON and
                \* the Content objects made so far
    cursors     \* the Habitipy cursors that exist on the shared tree

vars == <<apis, strict, phase, tree, current, node, result, netCalls,
          placed, written, lines, lineno, app, content, cursors>>

-----------------------------------------------------------------------------
(* Bounds *)

\* Invoke is disabled once the transport has been called MaxCalls times.
MaxCalls == 1

-----------------------------------------------------------------------------
(* Python str methods *)

None == [kind |-> "None"]

Char(s, i) == SubSeq(s, i, i)

startswith(s, p) == Len(s) >= Len(p) /\ SubSeq(s, 1, Len(p)) = p

endswith(s, p) == Len(s) >= Len(p) /\ SubSeq(s, Len(s) - Len(p) + 1, Len(s)) = p

contains(s, c) == \E i \in 1..Len(s) : Char(s, i) = c

RECURSIVE rstrip(_, _)
rstrip(s, c) ==
    IF endswith(s, c) THEN rstrip(SubSeq(s, 1, Len(s) - 1), c) ELSE s

RECURSIVE replace(_, _, _)
replace(s, a, b) ==
    IF Len(s) = 0 THEN s
    ELSE (IF Char(s, 1) = a THEN b ELSE Char(s, 1))
             \o replace(SubSeq(s, 2, Len(s)), a, b)

RECURSIVE split(_, _)
split(s, sep) ==
    IF ~contains(s, sep) THEN <<s>>
    ELSE LET i == CHOOSE k \in 1..Len(s) :
                      Char(s, k) = sep /\ \A j \in 1..(k - 1) : Char(s, j) # sep
         IN  <<SubSeq(s, 1, i - 1)>> \o split(SubSeq(s, i + 1, Len(s)), sep)

RECURSIVE join(_, _)
join(sep, parts) ==
    IF Len(parts) = 0 THEN ""
    ELSE IF Len(parts) = 1 THEN parts[1]
    ELSE parts[1] \o sep \o join(sep, Tail(parts))

-----------------------------------------------------------------------------
(* Program constants *)

API_CONTENT_TYPE == "application/json"

\* keyword.kwlist of the interpreter the package targets (habitipy/async.py is
\* a module name, so `async` and `await` are not yet reserved).
kwlist ==
    {"False", "None", "True", "and", "as", "assert", "break", "class",
     "continue", "def", "del", "elif", "else", "except", "finally", "for",
     "from", "global", "if", "import", "in", "is", "lambda", "nonlocal",
     "not", "or", "pass", "raise", "return", "try", "while", "with", "yield"}

-----------------------------------------------------------------------------
(* More of Python: str.lower, int, str.find *)

UpperCase == "ABCDEFGHIJKLMNOPQRSTUVWXYZ"
LowerCase == "abcdefghijklmnopqrstuvwxyz"
Digits == "0123456789"

\* The least index at or after i where s has the character c, or 0.
find(s, c, i) ==
    IF \E k \in i..Len(s) : Char(s, k) = c
    THEN CHOOSE k \in i..Len(s) :
             Char(s, k) = c /\ \A j \in i..(k - 1) : Char(s, j) # c
    ELSE 0

\* The least index at or after i where s has no space (Len(s) + 1 at its end).
skip_spaces(s, i) ==
    CHOOSE k \in i..(Len(s) + 1) :
        /\ (k <= Len(s) => Char(s, k) # " ")
        /\ \A j \in i..(k - 1) : Char(s, j) = " "

lower_char(c) ==
    IF contains(UpperCase, c)
    THEN Char(LowerCase, find(UpperCase, c, 1))
    ELSE c

RECURSIVE lower(_)
lower(s) ==
    IF Len(s) = 0 THEN s
    ELSE lower_char(Char(s, 1)) \o lower(SubSeq(s, 2, Len(s)))

\* int(s) for a string of decimal digits; int raises ValueError otherwise.
is_int(s) == Len(s) > 0 /\ \A i \in 1..Len(s) : contains(Digits, Char(s, i))

RECURSIVE int(_)
int(s) ==
    IF Len(s) = 0 THEN 0
    ELSE 10 * int(SubSeq(s, 1, Len(s) - 1))
             + (find(Digits, Char(s, Len(s)), 1) - 1)

-----------------------------------------------------------------------------
(* Param *)

Raised(exc) == [kind |-> "raised", exc |-> exc]

IsRaised(v) == v.kind = "raised"

strip_quotes(v) ==
    IF Char(v, 1) # "\"" THEN v ELSE SubSeq(v, 2, Len(v) - 1)

\* Param.__init__: the Param, or what the constructor raised.  A type_ of None
\* is the empty string here: `if type_` takes both the same way, and so is a
\* `type` of None.
Param(type_, field, description) ==
    IF Len(field) = 0 THEN Raised("IndexError")
    ELSE
        LET is_optional == Char(field, 1) = "[" /\ Char(field, Len(field)) = "]"
            inner == IF is_optional THEN SubSeq(field, 2, Len(field) - 1)
                     ELSE field
            eq    == split(inner, "=")
            name  == IF contains(inner, "=") THEN eq[1] ELSE inner
            dotted == split(name, ".")
            typ   == IF Len(type_) > 2 THEN SubSeq(type_, 2, Len(type_) - 1)
                     ELSE type_
            teq   == split(typ, "=")
            values == IF contains(typ, "=") THEN split(teq[2], ",") ELSE <<>>
        IN  IF contains(inner, "=") /\ Len(eq) # 2 THEN Raised("ValueError")
            ELSE IF contains(typ, "=") /\ Len(teq) # 2 THEN Raised("ValueError")
            ELSE IF \E k \in 1..Len(values) : Len(values[k]) = 0
            THEN Raised("IndexError")
            ELSE [kind        |-> "Param",
                  is_optional |-> is_optional,
                  field       |-> dotted[Len(dotted)],
                  default     |-> IF contains(inner, "=") THEN eq[2] ELSE "",
                  path        |-> SubSeq(dotted, 1, Len(dotted) - 1),
                  type        |-> lower(IF contains(typ, "=") THEN teq[1] ELSE typ),
                  possible_values |->
                      [k \in 1..Len(values) |-> strip_quotes(values[k])],
                  description |-> description]

-----------------------------------------------------------------------------
(* ApiEndpoint *)

\* `self.retcode = None`: 0 stands for None, which `not retcode` and
\* `retcode or group` take the same way.
NoRetcode == 0

NoParams == [g \in {} |-> [f \in {} |-> None]]

\* ApiEndpoint.__init__
ApiEndpoint(method, uri, title) ==
    [kind       |-> "ApiEndpoint",
     method     |-> method,
     uri        |-> uri,
     parted_uri |-> split(SubSeq(uri, 2, Len(uri)), "/"),
     title      |-> title,
     params     |-> NoParams,
     retcode    |-> NoRetcode]

\* self.params[group][p.field] = p on the defaultdict(dict).
set_param(params, group, p) ==
    LET old == IF group \in DOMAIN params THEN params[group]
               ELSE [f \in {} |-> None]
    IN  (group :> ((p.field :> p) @@ old)) @@ params

\* A group of None is the empty string here: `group or ...` takes both the
\* same way.
add_param(self, group, type_, field, description) ==
    LET g == IF Len(group) = 0 THEN "(Parameter)" ELSE group
        name == SubSeq(lower(g), 2, Len(g) - 1)
        p == Param(type_, field, description)
    IN  IF IsRaised(p) THEN p
        ELSE [self EXCEPT !.params = set_param(@, name, p)]

\* A mutant of add_success: the last status group wins, none is refused.
add_success_last_wins(self, group, type_, field, description) ==
    LET g == IF Len(group) = 0 THEN "(200)" ELSE group
        digits == SubSeq(lower(g), 2, Len(g) - 1)
        p == Param(IF Len(type_) = 0 THEN "{String}" ELSE type_, field,
                   description)
    IN  IF ~is_int(digits) THEN Raised("ValueError")
        ELSE IF IsRaised(p) THEN p
        ELSE [self EXCEPT !.retcode = int(digits),
                          !.params = set_param(@, "responce", p)]

add_success(self, group, type_, field, description) ==
    LET g == IF Len(group) = 0 THEN "(200)" ELSE group
        digits == SubSeq(lower(g), 2, Len(g) - 1)
        retcode == IF self.retcode # NoRetcode THEN self.retcode
                   ELSE int(digits)
        p == Param(IF Len(type_) = 0 THEN "{String}" ELSE type_, field,
                   description)
    IN  IF ~is_int(digits) THEN Raised("ValueError")
        ELSE IF int(digits) # retcode THEN Raised("ValueError")
        ELSE IF IsRaised(p) THEN p
        ELSE [self EXCEPT !.retcode = retcode,
                          !.params = set_param(@, "responce", p)]

-----------------------------------------------------------------------------
(* parse_apidoc *)

API_URI_BASE == "/api/v3"

\* The groups of param_regex / success_regex on a line that starts with `tag`
\* and a space; an unmatched optional group is the empty string.  Every part
\* of the pattern after the tag can match the empty string, so the greedy
\* choice at each part is the match.
regex_groups(line, tag) ==
    LET a    == skip_spaces(line, Len(tag) + 1)
        gEnd == IF a <= Len(line) /\ Char(line, a) = "("
                THEN find(line, ")", a + 1) ELSE 0
        b    == skip_spaces(line, IF gEnd = 0 THEN a ELSE gEnd + 1)
        tEnd == IF b <= Len(line) /\ Char(line, b) = "{"
                THEN find(line, "}", b + 1) ELSE 0
        c    == skip_spaces(line, IF tEnd = 0 THEN b ELSE tEnd + 1)
        fEnd == IF find(line, " ", c) = 0 THEN Len(line)
                ELSE find(line, " ", c) - 1
        d    == skip_spaces(line, fEnd + 1)
    IN  [group       |-> IF gEnd = 0 THEN "" ELSE SubSeq(line, a, gEnd),
         type_       |-> IF tEnd = 0 THEN "" ELSE SubSeq(line, b, tEnd),
         field       |-> SubSeq(line, c, fEnd),
         description |-> SubSeq(line, d, Len(line))]

\* A mutant of with_default_retcode: no status is filled in.
with_default_retcode_never(apis_) == apis_

\* `if apis: if not apis[-1].retcode: apis[-1].retcode = 200`
with_default_retcode(apis_) ==
    IF Len(apis_) > 0 /\ apis_[Len(apis_)].retcode = NoRetcode
    THEN [apis_ EXCEPT ![Len(apis_)].retcode = 200]
    ELSE apis_

\* apis[-1] = e, where e is what add_param / add_success left of apis[-1].
set_last(apis_, e) ==
    IF IsRaised(e) THEN e
    ELSE [kind |-> "list", list |-> [apis_ EXCEPT ![Len(apis_)] = e]]

\* One pass of the loop over the lines: the list afterwards, or what the pass
\* raised.  warnings.warn raises when the caller's filter is 'error'.
parse_line(apis_, line, warnings_error) ==
    IF startswith(line, "@api ")
    THEN LET split_line == split(line, " ")
             method == split_line[2]
             uri    == split_line[3]
             title  == join(" ", SubSeq(split_line, 4, Len(split_line)))
         IN  IF Len(split_line) < 3 THEN Raised("AssertionError")
             ELSE IF Len(method) = 0 THEN Raised("IndexError")
             ELSE IF Char(method, 1) # "{" \/ Char(method, Len(method)) # "}"
             THEN Raised("AssertionError")
             ELSE IF ~startswith(uri, API_URI_BASE) /\ warnings_error
             THEN Raised("UserWarning")
             ELSE [kind |-> "list",
                   list |-> Append(with_default_retcode(apis_),
                                   ApiEndpoint(SubSeq(method, 2, Len(method) - 1),
                                               uri, title))]
    ELSE IF startswith(line, "@apiParam ")
    THEN LET res == regex_groups(line, "@apiParam")
         IN  IF Len(apis_) = 0 THEN Raised("IndexError")
             ELSE set_last(apis_, add_param(apis_[Len(apis_)], res.group,
                                            res.type_, res.field,
                                            res.description))
    ELSE IF startswith(line, "@apiSuccess ")
    THEN LET res == regex_groups(line, "@apiSuccess")
         IN  IF Len(apis_) = 0 THEN Raised("IndexError")
             ELSE set_last(apis_, add_success(apis_[Len(apis_)], res.group,
                                              res.type_, res.field,
                                              res.description))
    ELSE [kind |-> "list", list |-> apis_]

-----------------------------------------------------------------------------
(* ApiNode *)

\* ApiNode(): `id` stands for the identity of the Python object.
ApiNode(id) ==
    [kind |-> "ApiNode", id |-> id, param |-> None, param_name |-> None,
     paths |-> [n \in {} |-> None]]

\* A mutant of into: the parametric child is tried before the literal ones.
into_param_first(self, val) ==
    IF self.param # None THEN self.param
    ELSE IF val \in DOMAIN self.paths THEN self.paths[val]
    ELSE Raised("IndexError")

into(self, val) ==
    IF val \in DOMAIN self.paths THEN self.paths[val]
    ELSE IF self.param # None THEN self.param
    ELSE Raised("IndexError")

\* A mutant of can_into: the registered parametric name is not looked at.
can_into_literal_only(self, val) == val \in DOMAIN self.paths

\* A mutant of can_into: any name can go into a node that has a parametric
\* child.
can_into_any_param(self, val) ==
    val \in DOMAIN self.paths \/ self.param # None

can_into(self, val) ==
    \/ val \in DOMAIN self.paths
    \/ (self.param # None /\ self.param_name = val)

\* A mutant of place: a key that is taken keeps what it holds.
place_keep_existing(self, part, val) ==
    IF startswith(part, ":")
    THEN IF self.param # None
         THEN Raised("ParamAlreadyExist")
         ELSE [self EXCEPT !.param = val, !.param_name = part]
    ELSE IF part \in DOMAIN self.paths THEN self
    ELSE [self EXCEPT !.paths = (part :> val) @@ @]

\* `self.param != part` compares an ApiNode with a str: it holds whenever
\* self.param is set.
place(self, part, val) ==
    IF startswith(part, ":")
    THEN IF self.param # None
         THEN Raised("ParamAlreadyExist")
         ELSE [self EXCEPT !.param = val, !.param_name = part]
    ELSE [self EXCEPT !.paths = (part :> val) @@ @]

\* The set of the yielded names (the order of the listing is not modelled).
keys(self) ==
    (IF self.param # None THEN {self.param_name} ELSE {}) \cup DOMAIN self.paths

\* A mutant of escape_keyword: reserved words are listed as they are.
escape_keyword_no_suffix(i) ==
    IF ~contains(i, "-") THEN i ELSE replace(i, "-", "_")

\* One pass of the loop of escape_keywords.
escape_keyword(i) ==
    LET k == IF i \notin kwlist THEN i ELSE i \o "_"
    IN  IF ~contains(k, "-") THEN k ELSE replace(k, "-", "_")

escape_keywords(arr) == {escape_keyword(i) : i \in arr}


-----------------------------------------------------------------------------
(* Habitipy._make_apis_dict *)

\* The object into(part) returned was changed in place; `sub` is its new value.
set_child(cur_node, part, sub) ==
    IF part \in DOMAIN cur_node.paths
    THEN [cur_node EXCEPT !.paths[part] = sub]
    ELSE [cur_node EXCEPT !.param = sub]

\* The rest of the inner loop for descriptor number i from cur_node on (depth d
\* segments already consumed), then `cur_node.place(api.method, api)`.  The
\* value is cur_node as the loop leaves it, or the exception that ends the
\* construction.  warnings.warn raises under simplefilter('error') and is
\* silent under simplefilter('ignore').
\* A mutant of place_parts: a descriptor with a conflicting parametric name is
\* dropped.
RECURSIVE place_parts_skip_conflict(_, _, _, _, _, _)
place_parts_skip_conflict(cur_node, parts, api, i, d, warnings_error) ==
    IF cur_node.kind # "ApiNode" THEN Raised("AttributeError")
    ELSE IF Len(parts) = 0 THEN place(cur_node, api.method, api)
    ELSE
        LET part == Head(parts)
            rest == Tail(parts)
        IN  IF can_into(cur_node, part)
            THEN LET sub == place_parts_skip_conflict(into(cur_node, part), rest, api, i, d + 1,
                                        warnings_error)
                 IN  IF IsRaised(sub) THEN sub ELSE set_child(cur_node, part, sub)
            ELSE IF IsRaised(place(cur_node, part, ApiNode(<<i, d + 1>>)))
            THEN IF warnings_error THEN Raised("UserWarning")
                 ELSE cur_node
            ELSE LET sub == place_parts_skip_conflict(ApiNode(<<i, d + 1>>), rest, api, i, d + 1,
                                        warnings_error)
                 IN  IF IsRaised(sub) THEN sub ELSE place(cur_node, part, sub)

RECURSIVE place_parts(_, _, _, _, _, _)
place_parts(cur_node, parts, api, i, d, warnings_error) ==
    IF cur_node.kind # "ApiNode" THEN Raised("AttributeError")
    ELSE IF Len(parts) = 0 THEN place(cur_node, api.method, api)
    ELSE
        LET part == Head(parts)
            rest == Tail(parts)
        IN  IF can_into(cur_node, part)
            THEN LET sub == place_parts(into(cur_node, part), rest, api, i, d + 1,
                                        warnings_error)
                 IN  IF IsRaised(sub) THEN sub ELSE set_child(cur_node, part, sub)
            ELSE IF IsRaised(place(cur_node, part, ApiNode(<<i, d + 1>>)))
            THEN IF warnings_error THEN Raised("UserWarning")
                 ELSE LET sub == place_parts(cur_node.param, rest, api, i, d + 1,
                                             warnings_error)
                      IN  IF IsRaised(sub) THEN sub
                          ELSE [cur_node EXCEPT !.param = sub]
            ELSE LET sub == place_parts(ApiNode(<<i, d + 1>>), rest, api, i, d + 1,
                                        warnings_error)
                 IN  IF IsRaised(sub) THEN sub ELSE place(cur_node, part, sub)

\* One pass of the outer loop: descriptor number i is put into the tree `root`.
place_api(root, api, i, warnings_error) ==
    place_parts(root, api.parted_uri, api, i, 0, warnings_error)

RECURSIVE place_from(_, _, _, _)
place_from(root, list, i, warnings_error) ==
    IF i > Len(list) \/ IsRaised(root) THEN root
    ELSE place_from(place_api(root, list[i], i, warnings_error), list, i + 1,
                    warnings_error)

make_apis_dict(list, warnings_error) ==
    place_from(ApiNode(<<0, 0>>), list, 1, warnings_error)

-----------------------------------------------------------------------------
(* Habitipy.__init__ *)

DefaultCurrent == <<"api", "v3">>

\* `strict=False` of __init__, what a cursor gets when no flag is passed.
DefaultStrict == FALSE

\* The loop of __init__ that follows `current` from the root.
RECURSIVE walk(_, _)
walk(_node, parts) ==
    IF Len(parts) = 0 THEN _node
    ELSE IF _node.kind = "ApiNode"
    THEN LET n == into(_node, Head(parts))
         IN  IF IsRaised(n) THEN n ELSE walk(n, Tail(parts))
    ELSE Raised("WrongPath")

\* Habitipy(conf, apis=root, current=cur): the new cursor, or what it raised.
Habitipy(root, cur) ==
    LET c == IF Len(cur) = 0 THEN DefaultCurrent ELSE cur
        n == walk(root, c)
    IN  IF IsRaised(n) THEN n
        ELSE [kind |-> "Habitipy", current |-> c, node |-> n]

-----------------------------------------------------------------------------
(* Navigation: Habitipy.__dir__, __getattr__, __getitem__ *)

\* Names the instance has without __getattr__ (set in __init__, or methods).
BaseDir ==
    {"_conf", "_strict", "_apis", "_node", "_current", "_make_apis_dict",
     "_make_headers", "_prepare_request", "_request"}

\* Habitipy.__dir__: the listed names, or the AttributeError of
\* ApiEndpoint.keys when the cursor stands on an endpoint.
dir(self) ==
    IF self.node.kind = "ApiNode"
    THEN [kind |-> "list", names |-> BaseDir \cup escape_keywords(keys(self.node))]
    ELSE Raised("AttributeError")

\* A mutant of attr_segment: the trailing underscore is not stripped.
attr_segment_no_rstrip(val) ==
    IF ~contains(val, "_") THEN val ELSE replace(val, "_", "-")

\* A mutant of attr_segment: inner underscores are not turned into hyphens.
attr_segment_no_replace(val) ==
    IF ~endswith(val, "_") THEN val ELSE rstrip(val, "_")

\* The segment __getattr__ appends for the attribute name `val`.
attr_segment(val) ==
    LET v == IF ~endswith(val, "_") THEN val ELSE rstrip(val, "_")
    IN  IF ~contains(v, "_") THEN v ELSE replace(v, "_", "-")

getattr(root, self, val) ==
    Habitipy(root, self.current \o <<attr_segment(val)>>)

\* __getitem__ with a str.
getitem(root, self, val) == Habitipy(root, self.current \o <<val>>)

\* A mutant of getitem_tuple: only the first segment of the list is taken.
getitem_tuple_first_only(root, self, val) ==
    Habitipy(root, self.current \o SubSeq(val, 1, 1))

\* __getitem__ with a list or a tuple.
getitem_tuple(root, self, val) == Habitipy(root, self.current \o val)

-----------------------------------------------------------------------------
(* Request dispatcher: Habitipy._prepare_request, _request, __call__ *)

\* The configuration load_conf yields: `url`, `login` and `password` are set.
Conf ==
    [url |-> "https://habitica.com", login |-> "login-uuid",
     password |-> "password-uuid"]

make_headers(conf) ==
    (IF conf # None
     THEN [h \in {"x-api-user", "x-api-key"} |->
              IF h = "x-api-user" THEN conf.login ELSE conf.password]
     ELSE [h \in {} |-> ""])
    @@ [h \in {"content-type"} |-> API_CONTENT_TYPE]

RaisedMsg(exc, msg) == [kind |-> "raised", exc |-> exc, msg |-> msg]

json_dumps(obj) == [kind |-> "json", obj |-> obj]

Restrict(f, S) == [n \in S |-> f[n]]

\* A mutant of query_missing: every declared parameter is taken as optional.
query_missing_none(_node, kwargs) == {}

\* A mutant of query_missing: the parameters of every group are looked at.
query_missing_any_group(_node, kwargs) ==
    UNION {{name \in DOMAIN _node.params[g] \ DOMAIN kwargs :
                ~_node.params[g][name].is_optional} : g \in DOMAIN _node.params}

\* The declared query parameters for which _prepare_request raises: those
\* that are not among the arguments and are not optional.
query_missing(_node, kwargs) ==
    IF "query" \in DOMAIN _node.params
    THEN {name \in DOMAIN _node.params["query"] \ DOMAIN kwargs :
              ~_node.params["query"][name].is_optional}
    ELSE {}

\* A mutant of query_popped: the arguments stay where they are.
query_popped_none(_node, kwargs) == {}

\* The declared query parameters _prepare_request pops from the arguments.
query_popped(_node, kwargs) ==
    IF "query" \in DOMAIN _node.params
    THEN DOMAIN _node.params["query"] \cap DOMAIN kwargs
    ELSE {}

\* A mutant of prepare_request: the method selector is left in the URL.
prepare_request_with_selector(conf, self, kwargs) ==
    LET uri    == join("/", <<conf.url>>
                            \o self.current)
        _node  == self.node
    IN  IF _node.kind # "ApiEndpoint"
        THEN RaisedMsg("ValueError", uri \o " is not an endpoint!")
        ELSE
            LET method == _node.method
                popped == query_popped(_node, kwargs)
                rest   == Restrict(kwargs, DOMAIN kwargs \ popped)
            IN  IF query_missing(_node, kwargs) # {}
                THEN RaisedMsg("TypeError", "Mandatory param is missing")
                ELSE [kind    |-> "request",
                      method  |-> method,
                      uri     |-> uri,
                      headers |-> make_headers(conf),
                      params  |-> Restrict(kwargs, popped),
                      data    |-> IF method \in {"put", "post", "delete"}
                                  THEN json_dumps(rest) ELSE None]

\* The (request, request_args, request_kwargs) of _prepare_request, or what it
\* raised.  kwargs is a function from argument names to values.
prepare_request(conf, self, kwargs) ==
    LET uri    == join("/", <<conf.url>>
                            \o SubSeq(self.current, 1, Len(self.current) - 1))
        _node  == self.node
    IN  IF _node.kind # "ApiEndpoint"
        THEN RaisedMsg("ValueError", uri \o " is not an endpoint!")
        ELSE
            LET method == _node.method
                popped == query_popped(_node, kwargs)
                rest   == Restrict(kwargs, DOMAIN kwargs \ popped)
            IN  IF query_missing(_node, kwargs) # {}
                THEN RaisedMsg("TypeError", "Mandatory param is missing")
                ELSE [kind    |-> "request",
                      method  |-> method,
                      uri     |-> uri,
                      headers |-> make_headers(conf),
                      params  |-> Restrict(kwargs, popped),
                      data    |-> IF method \in {"put", "post", "delete"}
                                  THEN json_dumps(rest) ELSE None]

\* requests.Response.raise_for_status raises for the 4xx and 5xx codes.
raises_for_status(status_code) == status_code >= 400 /\ status_code < 600

\* The message of the status mismatch.
mismatch_msg(_node, res) ==
    [got |-> res.status_code, expected |-> _node.retcode, uri |-> _node.uri]

\* What _request does after the status check let the response through.
json_data(_node, res, warned) ==
    IF "data" \notin DOMAIN res.json
    THEN RaisedMsg("KeyError", "data")
    ELSE [kind |-> "returned", value |-> res.json["data"], warned |-> warned]

\* A mutant of request: the strict flag is not looked at, a mismatch only warns.
request_never_strict(self, strict_, res) ==
    LET _node == self.node
        mismatch == res.status_code # _node.retcode
    IN  IF mismatch /\ raises_for_status(res.status_code)
        THEN RaisedMsg("HTTPError", res.status_code)
        ELSE json_data(_node, res,
                       IF mismatch THEN {mismatch_msg(_node, res)} ELSE {})

\* A mutant of request: a mismatch is fatal whatever the strict flag says.
request_always_strict(self, strict_, res) ==
    LET _node == self.node
        mismatch == res.status_code # _node.retcode
    IN  IF mismatch /\ raises_for_status(res.status_code)
        THEN RaisedMsg("HTTPError", res.status_code)
        ELSE IF mismatch
        THEN RaisedMsg("WrongReturnCode", mismatch_msg(_node, res))
        ELSE json_data(_node, res, {})

\* _request once the transport answered `res` = [status_code, json]: what the
\* call returns (with the warnings it emitted), or what it raised.
request(self, strict_, res) ==
    LET _node == self.node
        mismatch == res.status_code # _node.retcode
    IN  IF mismatch /\ raises_for_status(res.status_code)
        THEN RaisedMsg("HTTPError", res.status_code)
        ELSE IF mismatch /\ strict_
        THEN RaisedMsg("WrongReturnCode", mismatch_msg(_node, res))
        ELSE json_data(_node, res,
                       IF mismatch THEN {mismatch_msg(_node, res)} ELSE {})

\* A mutant of call: the transport is called before the request is validated.
call_sends_first(conf, self, strict_, kwargs, res) ==
    LET req == prepare_request(conf, self, kwargs)
    IN  IF IsRaised(req)
        THEN [calls |-> 1, request |-> None, out |-> req]
        ELSE [calls |-> 1, request |-> req, out |-> request(self, strict_, res)]

\* A mutant of call: the request is sent again when the first answer raised.
call_retries(conf, self, strict_, kwargs, res) ==
    LET req == prepare_request(conf, self, kwargs)
        out == IF IsRaised(req) THEN req ELSE request(self, strict_, res)
    IN  IF IsRaised(req)
        THEN [calls |-> 0, request |-> None, out |-> req]
        ELSE [calls |-> IF IsRaised(out) THEN 2 ELSE 1, request |-> req,
              out |-> out]

\* Habitipy.__call__: `calls` is the number of times the transport was called.
call(conf, self, strict_, kwargs, res) ==
    LET req == prepare_request(conf, self, kwargs)
    IN  IF IsRaised(req)
        THEN [calls |-> 0, request |-> None, out |-> req]
        ELSE [calls |-> 1, request |-> req, out |-> request(self, strict_, res)]

\* The response of the aiohttp transport: its status is read as `status`.
aiohttp_response(res) == [status |-> res.status_code, json |-> res.json]

\* aiohttp.ClientResponse.raise_for_status raises from 400 on.
aiohttp_raises_for_status(status) == status >= 400

\* A mutant of async_call: a status mismatch is never fatal.
async_call_never_strict(conf, self, strict_, kwargs, res) ==
    LET uri   == join("/", <<conf.url>>
                           \o SubSeq(self.current, 1, Len(self.current) - 1))
        _node == self.node
    IN  IF _node.kind # "ApiEndpoint"
        THEN [calls |-> 0, request |-> None,
              out |-> RaisedMsg("ValueError", uri \o " is not an endpoint!")]
        ELSE
            LET method == _node.method
                names  == IF "query" \in DOMAIN _node.params
                          THEN DOMAIN _node.params["query"] ELSE {}
                query  == Restrict(kwargs, names \cap DOMAIN kwargs)
                rest   == Restrict(kwargs, DOMAIN kwargs \ names)
                resp   == aiohttp_response(res)
            IN  IF \E name \in names \ DOMAIN kwargs :
                       ~_node.params["query"][name].is_optional
                THEN [calls |-> 0, request |-> None,
                      out |-> RaisedMsg("TypeError",
                                        "Mandatory param is missing")]
                ELSE [calls |-> 1,
                      request |-> [kind    |-> "request",
                                   method  |-> method,
                                   uri     |-> uri,
                                   headers |-> make_headers(conf),
                                   params  |-> query,
                                   data    |-> IF method \in {"put", "post",
                                                              "delete"}
                                               THEN json_dumps(rest)
                                               ELSE None],
                      out |->
                        IF resp.status # _node.retcode
                           /\ aiohttp_raises_for_status(resp.status)
                        THEN RaisedMsg("HTTPError", resp.status)
                        ELSE IF "data" \notin DOMAIN resp.json
                        THEN RaisedMsg("KeyError", "data")
                        ELSE [kind |-> "returned",
                              value |-> resp.json["data"],
                              warned |->
                                IF resp.status # _node.retcode
                                THEN {[got |-> resp.status,
                                       expected |-> _node.retcode,
                                       uri |-> _node.uri]}
                                ELSE {}]]

\* HabitipyAsync.__call__ once the session answered `res`: the request it
\* made, the number of times the session was called, and what the call
\* returns (with the warnings it emitted) or raised.
async_call(conf, self, strict_, kwargs, res) ==
    LET uri   == join("/", <<conf.url>>
                           \o SubSeq(self.current, 1, Len(self.current) - 1))
        _node == self.node
    IN  IF _node.kind # "ApiEndpoint"
        THEN [calls |-> 0, request |-> None,
              out |-> RaisedMsg("ValueError", uri \o " is not an endpoint!")]
        ELSE
            LET method == _node.method
                names  == IF "query" \in DOMAIN _node.params
                          THEN DOMAIN _node.params["query"] ELSE {}
                query  == Restrict(kwargs, names \cap DOMAIN kwargs)
                rest   == Restrict(kwargs, DOMAIN kwargs \ names)
                resp   == aiohttp_response(res)
            IN  IF \E name \in names \ DOMAIN kwargs :
                       ~_node.params["query"][name].is_optional
                THEN [calls |-> 0, request |-> None,
                      out |-> RaisedMsg("TypeError",
                                        "Mandatory param is missing")]
                ELSE [calls |-> 1,
                      request |-> [kind    |-> "request",
                                   method  |-> method,
                                   uri     |-> uri,
                                   headers |-> make_headers(conf),
                                   params  |-> query,
                                   data    |-> IF method \in {"put", "post",
                                                              "delete"}
                                               THEN json_dumps(rest)
                                               ELSE None],
                      out |->
                        IF resp.status # _node.retcode
                           /\ aiohttp_raises_for_status(resp.status)
                        THEN RaisedMsg("HTTPError", resp.status)
                        ELSE IF resp.status # _node.retcode /\ strict_
                        THEN RaisedMsg("WrongReturnCode",
                                       [got |-> resp.status,
                                        expected |-> _node.retcode,
                                        uri |-> _node.uri])
                        ELSE IF "data" \notin DOMAIN resp.json
                        THEN RaisedMsg("KeyError", "data")
                        ELSE [kind |-> "returned",
                              value |-> resp.json["data"],
                              warned |->
                                IF resp.status # _node.retcode
                                THEN {[got |-> resp.status,
                                       expected |-> _node.retcode,
                                       uri |-> _node.uri]}
                                ELSE {}]]

-----------------------------------------------------------------------------
(* Inputs *)

\* A descriptor as parse_apidoc leaves it: `query` lists the fields of its
\* @apiParam (Query) lines as documented (in brackets when optional), and
\* `retcode` is its status.
RECURSIVE with_query(_, _)
with_query(api, query) ==
    IF Len(query) = 0 THEN api
    ELSE with_query(add_param(api, "(Query)", "{String}", Head(query), ""),
                    Tail(query))

\* The same for the fields of @apiParam (Body) lines.
RECURSIVE with_body(_, _)
with_body(api, body) ==
    IF Len(body) = 0 THEN api
    ELSE with_body(add_param(api, "(Body)", "{String}", Head(body), ""),
                   Tail(body))

Documented(method, uri, title, query, retcode) ==
    [with_query(ApiEndpoint(method, uri, title), query)
        EXCEPT !.retcode = retcode]

\* A documentation without conflicts: a reserved word, a hyphenated segment, a
\* segment with an underscore of its own, a parametric segment beside a
\* literal one, optional and mandatory query parameters, a 201 endpoint with
\* a query parameter and body parameters.
DocMain ==
    <<Documented("get", "/api/v3/user", "Get the authenticated user's profile",
                 <<>>, 200),
      Documented("post", "/api/v3/user/class", "Cast a skill", <<>>, 200),
      Documented("post", "/api/v3/user/buy-armoire", "Buy an armoire item",
                 <<>>, 200),
      Documented("get", "/api/v3/user/auth_local", "Local authentication",
                 <<>>, 200),
      Documented("get", "/api/v3/tasks/user", "Get a user's tasks",
                 <<"[type]">>, 200),
      Documented("get", "/api/v3/tasks/:taskId", "Get a task", <<>>, 200),
      Documented("put", "/api/v3/tasks/:taskId", "Update a task", <<>>, 200),
      Documented("get", "/api/v3/groups", "Get groups for a user",
                 <<"type", "[paginate]">>, 200),
      with_body(Documented("post", "/api/v3/groups", "Create group",
                           <<"[type]">>, 201),
                <<"name", "[privacy]">>)>>

\* Two names for the parametric segment of one node.
DocConflict ==
    <<Documented("get", "/api/v3/tasks/:taskId", "Get a task", <<>>, 200),
      Documented("post", "/api/v3/tasks/:id/score", "Score a task", <<>>, 200),
      Documented("get", "/api/v3/tasks/user", "Get a user's tasks",
                 <<"[type]">>, 200)>>

\* The one-endpoint document, and what parse_apidoc makes of it.
DocOneText == "@api {get} /api/v3/user Get profile"

DocOne == with_default_retcode(parse_line(<<>>, DocOneText, FALSE).list)

Docs == {DocMain, DocConflict, DocOne}

\* Attribute names tried with __getattr__.
Identifiers ==
    {"user", "class_", "class", "buy_armoire", "auth_local", "tasks", "groups",
     "get", "post", "abracadabra", "score"}

\* Keys tried with __getitem__.
Segments ==
    {"user", "class", "buy-armoire", "auth_local", "tasks", "groups", "get",
     "put", "post", "abracadabra", ":taskId", "score"}

\* Lists tried with __getitem__.
SegmentLists ==
    {<<"user", "buy-armoire">>, <<"user", "class">>, <<"user", "get">>,
     <<"tasks", "abracadabra", "get">>, <<"user", "abracadabra">>,
     <<"groups", "get", "user">>}

\* Positions given to the constructor as `current`.
Currents == {<<>>} \cup {DefaultCurrent \o val : val \in SegmentLists}

ArgNames == {"type", "text"}

Kwargs == UNION {[S -> {"value"}] : S \in SUBSET ArgNames}

StatusCodes == {200, 201, 404}

\* What the transport answers: a status and a decoded body, with or without
\* the `data` envelope.
Responses ==
    {[status_code |-> c, json |-> j] :
        c \in StatusCodes,
        j \in {[k \in {"data"} |-> [hp |-> 10]],
               [k \in {"success"} |-> FALSE]}}

-----------------------------------------------------------------------------
(* The state machine: one binding, the cursor in hand, and the transport *)

self == [kind |-> "Habitipy", current |-> current, node |-> node]

Init ==
    /\ apis \in Docs
    /\ strict \in BOOLEAN
    /\ phase = "new"
    /\ tree = None
    /\ current = <<>>
    /\ node = None
    /\ result = [op |-> "none"]
    /\ netCalls = 0
    /\ placed = 0
    /\ written = <<>>
    /\ lines = <<>>
    /\ lineno = 0
    /\ app = None
    /\ content = None
    /\ cursors = <<>>

\* Habitipy(conf, apis=apis, strict=strict) with a non-empty list.
Construct ==
    /\ phase = "new"
    /\ LET t == make_apis_dict(apis, strict)
           c == IF IsRaised(t) THEN t ELSE Habitipy(t, <<>>)
       IN  IF IsRaised(c)
           THEN /\ phase' = "failed"
                /\ result' = [op |-> "init", current |-> <<>>,
                              outcome |-> c.exc]
                /\ UNCHANGED <<tree, current, node, placed>>
           ELSE /\ phase' = "ready"
                /\ placed' = Len(apis)
                /\ tree' = t
                /\ current' = c.current
                /\ node' = c.node
                /\ result' = [op |-> "init", current |-> <<>>,
                              outcome |-> "ok"]
    /\ UNCHANGED <<apis, strict, netCalls, written, lines, lineno, app, content, cursors>>

\* Habitipy(conf, apis=self._apis, current=cur, strict=s): a cursor made
\* directly on the tree of the binding, at its root when cur is empty.
Cursor(cur, s) ==
    /\ phase = "ready"
    /\ LET c == Habitipy(tree, cur)
       IN  /\ result' = [op |-> "init", current |-> cur,
                         outcome |-> IF IsRaised(c) THEN c.exc ELSE "ok"]
           /\ current' = IF IsRaised(c) THEN current ELSE c.current
           /\ node' = IF IsRaised(c) THEN node ELSE c.node
           /\ strict' = IF IsRaised(c) THEN strict ELSE s
    /\ UNCHANGED <<apis, phase, tree, netCalls>>
    /\ UNCHANGED <<placed, written, lines, lineno, app, content, cursors>>

\* A step leaves the cursor in hand where it is when it raises.  The cursor
\* it returns is made by self.__class__(self._conf, apis=..., current=...),
\* without `strict`.
Step(op, arg, c) ==
    /\ result' = [op |-> op, arg |-> arg, from |-> current, at |-> node,
                  strict |-> strict,
                  outcome |-> IF IsRaised(c) THEN c.exc ELSE "ok"]
    /\ current' = IF IsRaised(c) THEN current ELSE c.current
    /\ node' = IF IsRaised(c) THEN node ELSE c.node
    /\ strict' = IF IsRaised(c) THEN strict ELSE DefaultStrict
    /\ UNCHANGED <<apis, phase, tree, netCalls>>
    /\ UNCHANGED <<placed, written, lines, lineno, app, content, cursors>>

GetAttr(val) ==
    /\ phase = "ready"
    /\ Step("getattr", val, getattr(tree, self, val))

GetItem(val) ==
    /\ phase = "ready"
    /\ Step("getitem", val, getitem(tree, self, val))

GetItemTuple(val) ==
    /\ phase = "ready"
    /\ Step("getitem_tuple", val, getitem_tuple(tree, self, val))

Dir ==
    /\ phase = "ready"
    /\ LET d == dir(self)
       IN  result' = [op |-> "dir", from |-> current, at |-> node,
                      outcome |-> IF IsRaised(d) THEN d.exc ELSE "ok",
                      listing |-> IF IsRaised(d) THEN {} ELSE d.names]
    /\ UNCHANGED <<apis, strict, phase, tree, current, node, netCalls>>
    /\ UNCHANGED <<placed, written, lines, lineno, app, content, cursors>>

Call(kwargs, res) ==
    /\ phase = "ready"
    /\ netCalls < MaxCalls
    /\ LET r == call(Conf, self, strict, kwargs, res)
       IN  /\ result' = [op |-> "call", from |-> current, at |-> node,
                         kwargs |-> kwargs, res |-> res, strict |-> strict,
                         callsBefore |-> netCalls, request |-> r.request,
                         outcome |-> IF IsRaised(r.out) THEN r.out.exc ELSE "ok",
                         out |-> r.out]
           /\ netCalls' = netCalls + r.calls
    /\ UNCHANGED <<apis, strict, phase, tree, current, node>>
    /\ UNCHANGED <<placed, written, lines, lineno, app, content, cursors>>

\* await HabitipyAsync.__call__(session, **kwargs), the session answering
\* res.
CallAsync(kwargs, res) ==
    /\ phase = "ready"
    /\ netCalls < MaxCalls
    /\ LET r == async_call(Conf, self, strict, kwargs, res)
       IN  /\ result' = [op |-> "call_async", from |-> current, at |-> node,
                         kwargs |-> kwargs, res |-> res, strict |-> strict,
                         callsBefore |-> netCalls, request |-> r.request,
                         outcome |-> IF IsRaised(r.out) THEN r.out.exc ELSE "ok",
                         out |-> r.out]
           /\ netCalls' = netCalls + r.calls
    /\ UNCHANGED <<apis, strict, phase, tree, current, node>>
    /\ UNCHANGED <<placed, written, lines, lineno, app, content, cursors>>

Next ==
    \/ Construct
    \/ \E cur \in Currents, s \in BOOLEAN : Cursor(cur, s)
    \/ \E val \in Identifiers : GetAttr(val)
    \/ \E val \in Segments : GetItem(val)
    \/ \E val \in SegmentLists : GetItemTuple(val)
    \/ Dir
    \/ \E kwargs \in Kwargs, res \in Responses : Call(kwargs, res)
    \/ \E kwargs \in Kwargs, res \in Responses : CallAsync(kwargs, res)

Spec == Init /\ [][Next]_vars

-----------------------------------------------------------------------------
(* Properties of the request dispatcher *)

IsCall == result.op = "call"

Sent == IsCall /\ result.request # None

Mismatch == result.res.status_code # result.at.retcode

\* C1: Invoke on a cursor whose node is not an endpoint fails with the
\* "is not an endpoint" ValueError, and the transport is not called.
C1_NonTerminalInvokeFails ==
    (IsCall /\ result.at.kind # "ApiEndpoint") =>
        /\ result.outcome = "ValueError"
        /\ endswith(result.out.msg, " is not an endpoint!")
        /\ result.request = None
        /\ netCalls = result.callsBefore

\* A call on a node reached by steps from the root.
C1_Witness ==
    /\ IsCall
    /\ result.at.kind = "ApiNode"
    /\ Len(result.from) > Len(DefaultCurrent)
    /\ result.outcome = "ValueError"

MandatoryOmitted ==
    /\ "query" \in DOMAIN result.at.params
    /\ \E name \in DOMAIN result.at.params["query"] :
           /\ ~result.at.params["query"][name].is_optional
           /\ name \notin DOMAIN result.kwargs

\* C2: Invoke on an endpoint with a non-optional "query" parameter that is not
\* among the arguments fails with the missing-parameter TypeError and the
\* transport is not called, whatever else is passed.
C2_MissingQueryParameter ==
    (IsCall /\ result.at.kind = "ApiEndpoint" /\ MandatoryOmitted) =>
        /\ result.outcome = "TypeError"
        /\ result.out.msg = "Mandatory param is missing"
        /\ result.request = None
        /\ netCalls = result.callsBefore

\* The mandatory parameter is omitted while another argument is supplied.
C2_Witness ==
    /\ IsCall
    /\ result.at.kind = "ApiEndpoint"
    /\ MandatoryOmitted
    /\ DOMAIN result.kwargs # {}
    /\ result.outcome = "TypeError"

HasData == "data" \in DOMAIN result.res.json

ReturnedWithDiagnostic ==
    /\ result.outcome = "ok"
    /\ result.out.value = result.res.json["data"]
    /\ result.out.warned = {mismatch_msg(result.at, result.res)}

-----------------------------------------------------------------------------
(* Properties of the navigation *)

IsStep == result.op \in {"getattr", "getitem"}

\* The segment a single step asks for: the key itself, or the segment the
\* attribute name stands for.
StepSegment ==
    IF result.op = "getattr" THEN attr_segment(result.arg) ELSE result.arg

\* C5: a step at a node resolves to the literal child of that name when there
\* is one, otherwise to the parametric child when one is registered, and
\* otherwise raises IndexError; attribute and index steps alike, and
\* 'abracadabra' at the root fails both ways.
C5_StepResolution ==
    (IsStep /\ result.at.kind = "ApiNode") =>
        /\ IF StepSegment \in DOMAIN result.at.paths
           THEN /\ result.outcome = "ok"
                /\ node = result.at.paths[StepSegment]
                /\ current = result.from \o <<StepSegment>>
           ELSE IF result.at.param # None
           THEN /\ result.outcome = "ok"
                /\ node = result.at.param
                /\ current = result.from \o <<StepSegment>>
           ELSE /\ result.outcome = "IndexError"
                /\ node = result.at
                /\ current = result.from
        /\ (result.from = DefaultCurrent /\ result.arg = "abracadabra") =>
               result.outcome = "IndexError"

\* An attribute step that fell through to the parametric child of a node that
\* has literal children too.
C5_Witness ==
    /\ result.op = "getattr"
    /\ result.at.kind = "ApiNode"
    /\ DOMAIN result.at.paths # {}
    /\ StepSegment \notin DOMAIN result.at.paths
    /\ result.outcome = "ok"
    /\ node = result.at.param

\* The identifier-safe name of a raw segment: a trailing underscore for a
\* reserved word, underscores for hyphens.
IdentifierSafe(s) ==
    IF s \in kwlist THEN s \o "_" ELSE replace(s, "-", "_")

\* A raw segment the identifier-safe name is meant for: no underscore of its
\* own, no hyphen at its end.
PlainSegment(s) == ~contains(s, "_") /\ ~endswith(s, "-")

SamePath(a, b) ==
    IF IsRaised(a) \/ IsRaised(b)
    THEN IsRaised(a) /\ IsRaised(b) /\ a.exc = b.exc
    ELSE a.current = b.current

PlainSegments == {s \in Segments : PlainSegment(s)}

\* C6: from any cursor, the attribute step with the identifier-safe name, the
\* index step with the raw segment and the list step with the raw segments
\* give the same pathSoFar (api.user.class_ = api['user']['class'],
\* api.user.buy_armoire = api['user']['buy-armoire'] = api['user','buy-armoire']).
C6_NavigationStylesAgree ==
    phase = "ready" =>
        \A s \in PlainSegments :
            LET byAttr == getattr(tree, self, IdentifierSafe(s))
                byKey  == getitem(tree, self, s)
            IN  /\ SamePath(byAttr, byKey)
                /\ SamePath(byKey, getitem_tuple(tree, self, <<s>>))
                /\ ~IsRaised(byKey) =>
                       \A t \in PlainSegments :
                           /\ SamePath(getattr(tree, byAttr, IdentifierSafe(t)),
                                       getitem(tree, byKey, t))
                           /\ SamePath(getitem(tree, byKey, t),
                                       getitem_tuple(tree, self, <<s, t>>))

\* api.user.class_ was taken and stands at ['api','v3','user','class'].
C6_Witness ==
    /\ result.op = "getattr"
    /\ result.arg = "class_"
    /\ result.outcome = "ok"
    /\ current = <<"api", "v3", "user", "class">>
    /\ ~IsRaised(getitem(tree, [self EXCEPT !.current = result.from,
                                            !.node = result.at], "class"))

SameNode(a, b) ==
    ~IsRaised(a) /\ ~IsRaised(b) /\ a.node = b.node

\* C8 as claimed: for every child segment of a node, underscores of its own
\* included, the attribute step with the name the key listing shows for it
\* reaches the node the segment itself leads to.
C8_ListedNameRoundTripsAlways ==
    (phase = "ready" /\ node.kind = "ApiNode") =>
        \A s \in keys(node) :
            SameNode(getattr(tree, self, escape_keyword(s)),
                     getitem(tree, self, s))

\* C8 as amended: for every child segment of a node that has no underscore of
\* its own and no hyphen at its end, the attribute step with the name the key
\* listing shows for it reaches the node the segment itself leads to.
C8_ListedNameRoundTrips ==
    (phase = "ready" /\ node.kind = "ApiNode") =>
        \A s \in {k \in keys(node) : PlainSegment(k)} :
            SameNode(getattr(tree, self, escape_keyword(s)),
                     getitem(tree, self, s))

\* The cursor api.user was listed: its children are a reserved word, a
\* hyphenated segment and a segment with an underscore of its own.
C8_Witness ==
    /\ result.op = "dir"
    /\ result.outcome = "ok"
    /\ {"class", "buy-armoire", "auth_local"} \subseteq keys(node)
    /\ SameNode(getattr(tree, self, "class_"), getitem(tree, self, "class"))

-----------------------------------------------------------------------------
(* Habitipy._make_apis_dict, one descriptor of the list at a time *)

\* Longest descriptor list handed to the builder.
MaxApis == 3

BuildPool ==
    {ApiEndpoint("get", "/api/v3/tasks/:taskId", "Get a task"),
     ApiEndpoint("get", "/api/v3/tasks/:id", "Get a task given its id"),
     ApiEndpoint("post", "/api/v3/tasks/:id/score", "Score a task"),
     ApiEndpoint("get", "/api/v3/tasks/user", "Get a user's tasks"),
     ApiEndpoint("get", "/api/v3/tasks/user", "Get the tasks again"),
     ApiEndpoint("get", "/api/v3/tasks", "Get the tasks of a challenge"),
     ApiEndpoint("post", "/api/v3/tasks/get", "Fetch a task")}

BuildLists == UNION {[1..n -> BuildPool] : n \in 1..MaxApis}

BuildInit ==
    /\ apis \in BuildLists
    /\ strict \in BOOLEAN
    /\ phase = "new"
    /\ tree = ApiNode(<<0, 0>>)
    /\ current = <<>>
    /\ node = None
    /\ result = [op |-> "none"]
    /\ netCalls = 0
    /\ placed = 0
    /\ written = <<>>
    /\ lines = <<>>
    /\ lineno = 0
    /\ app = None
    /\ content = None
    /\ cursors = <<>>

\* One pass of `for api in apis`; the loop is left when a pass raises.
PlaceNext ==
    /\ phase = "new"
    /\ placed < Len(apis)
    /\ LET t == place_api(tree, apis[placed + 1], placed + 1, strict)
       IN  IF IsRaised(t)
           THEN /\ phase' = "failed"
                /\ result' = [op |-> "place", api |-> placed + 1,
                              before |-> tree, outcome |-> t.exc]
                /\ UNCHANGED <<tree, placed>>
           ELSE /\ tree' = t
                /\ placed' = placed + 1
                /\ phase' = IF placed + 1 = Len(apis) THEN "ready" ELSE "new"
                /\ result' = [op |-> "place", api |-> placed + 1,
                              before |-> tree, outcome |-> "ok"]
    /\ UNCHANGED <<apis, strict, current, node, netCalls, written, lines, lineno, app, content, cursors>>

\* The segments of a descriptor's own URL, then its method.
route(api) == api.parted_uri \o <<api.method>>

\* Habitipy(conf, apis=tree, current=...) along the URL of descriptor i.
WalkUri(i) ==
    /\ phase = "ready"
    /\ i \in 1..Len(apis)
    /\ LET c == Habitipy(tree, route(apis[i]))
       IN  /\ result' = [op |-> "walk", api |-> i,
                         outcome |-> IF IsRaised(c) THEN c.exc ELSE "ok",
                         at |-> IF IsRaised(c) THEN None ELSE c.node]
           /\ current' = IF IsRaised(c) THEN current ELSE c.current
           /\ node' = IF IsRaised(c) THEN node ELSE c.node
    /\ UNCHANGED <<apis, strict, phase, tree, netCalls, placed>>
    /\ UNCHANGED <<written, lines, lineno, app, content, cursors>>

BuildNext ==
    \/ PlaceNext
    \/ \E i \in 1..MaxApis : WalkUri(i)

SpecBuild == BuildInit /\ [][BuildNext]_vars

-----------------------------------------------------------------------------
(* Properties of the tree builder *)

IsParamPart(part) == startswith(part, ":")

\* Two segment lists the builder takes down the same chain of nodes.
SameRoute(p, q) ==
    /\ Len(p) = Len(q)
    /\ \A k \in 1..Len(p) : p[k] = q[k] \/ (IsParamPart(p[k]) /\ IsParamPart(q[k]))

\* Descriptor j, later in the list, takes the key that led to descriptor i:
\* the same method at the end of the same route, or a method that is
\* spelled as the segment descriptor i continues with.
Displaces(j, i) ==
    LET a == apis[i]
        b == apis[j]
    IN  /\ j > i
        /\ \/ b.method = a.method /\ SameRoute(b.parted_uri, a.parted_uri)
           \/ \E k \in 0..(Len(a.parted_uri) - 1) :
                  /\ SameRoute(b.parted_uri, SubSeq(a.parted_uri, 1, k))
                  /\ b.method = a.parted_uri[k + 1]

Reaches(i) ==
    LET c == Habitipy(tree, route(apis[i]))
    IN  ~IsRaised(c) /\ c.node = apis[i]

\* C9 as stated: once the tree is built, the walk along the URL of every
\* descriptor of the list, then its method, ends at that descriptor.
C9_EveryDescriptorReached ==
    phase = "ready" => \A i \in 1..Len(apis) : Reaches(i)

\* C9, amended: once the tree is built, the walk along the URL of a
\* descriptor, then its method, ends at that descriptor, for every descriptor
\* of the list that no later descriptor displaces.
C9_UndisplacedDescriptorReached ==
    phase = "ready" =>
        \A i \in 1..Len(apis) :
            (~\E j \in 1..Len(apis) : Displaces(j, i)) => Reaches(i)

\* A conflicting parametric name was merged and the walk along the URL of
\* that descriptor has just ended at it.
C9_Witness ==
    /\ phase = "ready"
    /\ result.op = "walk"
    /\ result.outcome = "ok"
    /\ result.at = apis[result.api]
    /\ Len(apis) >= 2
    /\ result.api = Len(apis)
    /\ \E k \in 1..Len(apis[result.api].parted_uri) :
           /\ IsParamPart(apis[result.api].parted_uri[k])
           /\ apis[result.api].parted_uri[k] # apis[1].parted_uri[k]

-----------------------------------------------------------------------------
(* parse_apidoc, one line of the text at a time *)

\* Longest document, in lines, besides the test document.
MaxLines == 3

\* What one line of an apiDoc text declares.  `status` is the number of the
\* status group of a response line, 0 when the line has no status group.
Declaration(method, uri, title) ==
    [tag |-> "api", method |-> method, uri |-> uri, title |-> title]

Parameter(group, type_, field, description) ==
    [tag |-> "param", group |-> group, type_ |-> type_, field |-> field,
     description |-> description]

Response(group, status, type_, field, description) ==
    [tag |-> "success", group |-> group, status |-> status, type_ |-> type_,
     field |-> field, description |-> description]

Other(line) == [tag |-> "other", line |-> line]

\* The line of text that declares an item.
render_item(it) ==
    LET opt(x) == IF Len(x) = 0 THEN "" ELSE x \o " "
    IN  CASE it.tag = "api" ->
                 "@api {" \o it.method \o "} " \o it.uri \o " " \o it.title
          [] it.tag = "param" ->
                 "@apiParam " \o opt(it.group) \o opt(it.type_) \o it.field
                     \o " " \o it.description
          [] it.tag = "success" ->
                 "@apiSuccess " \o opt(it.group) \o opt(it.type_) \o it.field
                     \o " " \o it.description
          [] OTHER -> it.line

\* The text of a document: its lines, each ended by a newline.
RECURSIVE render(_)
render(items) ==
    IF Len(items) = 0 THEN ""
    ELSE render_item(Head(items)) \o "\n" \o render(Tail(items))

\* test_data of tests/test_api.py; the two backticks of its line 13, which a
\* TLA+ string cannot hold, are apostrophes here.
test_data ==
    "\n"
    \o "@api {post} /api/v3/user/webhook Create a new webhook - BETA\n"
    \o "@apiParam (Body) {UUID} [id=\"Randomly Generated UUID\"] The webhook's id\n"
    \o "@apiParam (Body) {String} url The webhook's URL\n"
    \o "@apiParam (Body) {String} [label] A label to remind you what this webhook does\n"
    \o "@apiParam (Body) {Boolean} [enabled=true] If the webhook should be enabled\n"
    \o "@apiParam (Body) {Sring=\"taskActivity\",\"groupChatReceived\"} [type=\"taskActivity\"] The webhook's type.\n"
    \o "@apiParam (Body) {Object} [options] The webhook's options. Wil differ depending on type. Required for 'groupChatReceived' type. If a webhook supports options, the default values are displayed in the examples below\n"
    \o "@apiSuccess (201) {Object} data The created webhook\n"
    \o "@apiSuccess (201) {UUID} data.id The uuid of the webhook\n"
    \o "@apiSuccess (201) {String} data.url The url of the webhook\n"
    \o "@apiSuccess (201) {String} data.label A label for you to keep track of what this webhooks is for\n"
    \o "@apiSuccess (201) {Boolean} data.enabled Whether the webhook should be sent\n"
    \o "@apiSuccess (201) {String} data.type The type of the webhook\n"
    \o "@apiSuccess (201) {Object} data.options The options for the webhook (See examples)\n"
    \o "@api {put} /api/v3/user/webhook/:id Edit a webhook - BETA\n"
    \o "@apiParam (Path) {UUID} id URL parameter - The id of the webhook to update\n"
    \o "@apiParam (Body) {String} [url] The webhook's URL\n"
    \o "@apiParam (Body) {String} [label] A label to remind you what this webhook does\n"
    \o "@apiParam (Body) {Boolean} [enabled] If the webhook should be enabled\n"
    \o "@apiParam (Body) {Sring=\"taskActivity\",\"groupChatReceived\"} [type] The webhook's type.\n"
    \o "@apiParam (Body) {Object} [options] The webhook's options. Wil differ depending on type. The options are enumerated in the [add webhook examples](#api-Webhook-UserAddWebhook).\n"
    \o "@apiSuccess {Object} data The updated webhook\n"
    \o "@apiSuccess {UUID} data.id The uuid of the webhook\n"
    \o "@apiSuccess {String} data.url The url of the webhook\n"
    \o "@apiSuccess {String} data.label A label for you to keep track of what this webhooks is for\n"
    \o "@apiSuccess {Boolean} data.enabled Whether the webhook should be sent\n"
    \o "@apiSuccess {String} data.type The type of the webhook\n"
    \o "@apiSuccess {Object} data.options The options for the webhook (See webhook add examples)\n"
    \o "@api {delete} /api/v3/user/webhook/:id Delete a webhook - BETA\n"
    \o "@apiParam (Path) {UUID} id The id of the webhook to delete\n"
    \o "@apiParam (Query) [dueDate] type Optional date to use for computing the nextDue field for each returned task.\n"

TestItems ==
    <<Other(""),
      Declaration("post", "/api/v3/user/webhook", "Create a new webhook - BETA"),
      Parameter("(Body)", "{UUID}", "[id=\"Randomly Generated UUID\"]", "The webhook's id"),
      Parameter("(Body)", "{String}", "url", "The webhook's URL"),
      Parameter("(Body)", "{String}", "[label]", "A label to remind you what this webhook does"),
      Parameter("(Body)", "{Boolean}", "[enabled=true]", "If the webhook should be enabled"),
      Parameter("(Body)", "{Sring=\"taskActivity\",\"groupChatReceived\"}", "[type=\"taskActivity\"]", "The webhook's type."),
      Parameter("(Body)", "{Object}", "[options]", "The webhook's options. Wil differ depending on type. Required for 'groupChatReceived' type. If a webhook supports options, the default values are displayed in the examples below"),
      Response("(201)", 201, "{Object}", "data", "The created webhook"),
      Response("(201)", 201, "{UUID}", "data.id", "The uuid of the webhook"),
      Response("(201)", 201, "{String}", "data.url", "The url of the webhook"),
      Response("(201)", 201, "{String}", "data.label", "A label for you to keep track of what this webhooks is for"),
      Response("(201)", 201, "{Boolean}", "data.enabled", "Whether the webhook should be sent"),
      Response("(201)", 201, "{String}", "data.type", "The type of the webhook"),
      Response("(201)", 201, "{Object}", "data.options", "The options for the webhook (See examples)"),
      Declaration("put", "/api/v3/user/webhook/:id", "Edit a webhook - BETA"),
      Parameter("(Path)", "{UUID}", "id", "URL parameter - The id of the webhook to update"),
      Parameter("(Body)", "{String}", "[url]", "The webhook's URL"),
      Parameter("(Body)", "{String}", "[label]", "A label to remind you what this webhook does"),
      Parameter("(Body)", "{Boolean}", "[enabled]", "If the webhook should be enabled"),
      Parameter("(Body)", "{Sring=\"taskActivity\",\"groupChatReceived\"}", "[type]", "The webhook's type."),
      Parameter("(Body)", "{Object}", "[options]", "The webhook's options. Wil differ depending on type. The options are enumerated in the [add webhook examples](#api-Webhook-UserAddWebhook)."),
      Response("", 0, "{Object}", "data", "The updated webhook"),
      Response("", 0, "{UUID}", "data.id", "The uuid of the webhook"),
      Response("", 0, "{String}", "data.url", "The url of the webhook"),
      Response("", 0, "{String}", "data.label", "A label for you to keep track of what this webhooks is for"),
      Response("", 0, "{Boolean}", "data.enabled", "Whether the webhook should be sent"),
      Response("", 0, "{String}", "data.type", "The type of the webhook"),
      Response("", 0, "{Object}", "data.options", "The options for the webhook (See webhook add examples)"),
      Declaration("delete", "/api/v3/user/webhook/:id", "Delete a webhook - BETA"),
      Parameter("(Path)", "{UUID}", "id", "The id of the webhook to delete"),
      Parameter("(Query)", "", "[dueDate]", "type Optional date to use for computing the nextDue field for each returned task.")>>

ItemPool ==
    {Declaration("get", "/api/v3/user", "Get the authenticated user's profile"),
     Declaration("post", "/api/v3/groups", "Create group"),
     Declaration("put", "/tasks/:taskId", "Update a task"),
     Parameter("(Query)", "{String}", "[type]", "The type of the tasks"),
     Response("(201)", 201, "{Object}", "data", "The created group"),
     Response("", 0, "{Object}", "data.id", "The id"),
     Response("(0)", 0, "{String}", "message", "Nothing"),
     Other("@apiName GetUser"),
     Other("@api {get}")}

ItemLists == UNION {[1..n -> ItemPool] : n \in 1..MaxLines}

Documents ==
    {[written |-> w, text |-> render(w)] : w \in ItemLists}
        \cup {[written |-> TestItems, text |-> test_data]}

ParseInit ==
    /\ \E doc \in Documents :
           /\ written = doc.written
           /\ lines = split(doc.text, "\n")
    /\ lineno = 0
    /\ apis = <<>>
    /\ strict \in BOOLEAN
    /\ phase = "new"
    /\ tree = None
    /\ current = <<>>
    /\ node = None
    /\ result = [op |-> "none"]
    /\ netCalls = 0
    /\ placed = 0
    /\ app = None
    /\ content = None
    /\ cursors = <<>>

\* One pass of `for line in text.split('\n')`.
ParseLine ==
    /\ phase = "new"
    /\ lineno < Len(lines)
    /\ LET r == parse_line(apis, lines[lineno + 1], strict)
       IN  IF IsRaised(r)
           THEN /\ phase' = "failed"
                /\ result' = [op |-> "parse_line", line |-> lineno + 1,
                              outcome |-> r.exc]
                /\ UNCHANGED <<apis, lineno>>
           ELSE /\ apis' = r.list
                /\ lineno' = lineno + 1
                /\ result' = [op |-> "parse_line", line |-> lineno + 1,
                              outcome |-> "ok"]
                /\ UNCHANGED phase
    /\ UNCHANGED <<strict, tree, current, node, netCalls, placed, written, lines, app, content, cursors>>

\* The end of the loop: the last descriptor gets its status, the list is
\* returned.
Return ==
    /\ phase = "new"
    /\ lineno = Len(lines)
    /\ apis' = with_default_retcode(apis)
    /\ phase' = "ready"
    /\ result' = [op |-> "parse_apidoc", outcome |-> "ok"]
    /\ UNCHANGED <<strict, tree, current, node, netCalls, placed, written, lines,
                   lineno, app, content, cursors>>

ParseNext == ParseLine \/ Return

SpecParse == ParseInit /\ [][ParseNext]_vars

-----------------------------------------------------------------------------
(* Properties of the parser *)

\* What a document declares, in order: one entry per declaration, with the
\* status of the last response line that follows it, or 200.
RECURSIVE declared(_, _)
declared(items, acc) ==
    IF Len(items) = 0 THEN acc
    ELSE LET it == Head(items)
         IN  IF it.tag = "api"
             THEN declared(Tail(items),
                           Append(acc, [method |-> it.method, uri |-> it.uri,
                                        title |-> it.title, status |-> 200]))
             ELSE IF it.tag = "success" /\ Len(acc) > 0
             THEN declared(Tail(items),
                           [acc EXCEPT ![Len(acc)].status =
                                IF Len(it.group) = 0 THEN 200 ELSE it.status])
             ELSE declared(Tail(items), acc)

\* Every status group of the document is the number of an HTTP status.
StatusGroupsAreHttp ==
    \A k \in 1..Len(written) :
        (written[k].tag = "success" /\ Len(written[k].group) > 0)
            => written[k].status \in 100..599

DeclarationLines == {k \in 1..Len(lines) : startswith(lines[k], "@api ")}

\* C10: when parse_apidoc returns for a document whose status groups are HTTP
\* statuses, the list has one descriptor per declaration line, in the order of
\* the declarations, each with the declared method, URL and title and with
\* the status of its last response line, 200 when it has none or the line
\* names no status; the test document gives 3 descriptors with the statuses
\* 201, 200, 200.
C10_ParsedAsDeclared ==
    (phase = "ready" /\ StatusGroupsAreHttp) =>
        LET d == declared(written, <<>>)
        IN  /\ Len(apis) = Cardinality(DeclarationLines)
            /\ Len(apis) = Len(d)
            /\ \A k \in 1..Len(d) :
                   /\ apis[k].method = d[k].method
                   /\ apis[k].uri = d[k].uri
                   /\ apis[k].title = d[k].title
                   /\ apis[k].retcode = d[k].status
            /\ written = TestItems =>
                   [k \in 1..Len(apis) |-> apis[k].retcode] = <<201, 200, 200>>

\* parse_apidoc has returned the three descriptors of the test document.
C10_Witness ==
    /\ phase = "ready"
    /\ result.op = "parse_apidoc"
    /\ written = TestItems
    /\ Len(apis) = 3
    /\ apis[1].retcode = 201
    /\ apis[3].retcode = 200
    /\ apis[2].title = "Edit a webhook - BETA"

\* The status a response item stands for: 200 when it names no status group.
EffectiveStatus(it) == IF Len(it.group) = 0 THEN 200 ELSE it.status

\* Item k is a response line of an endpoint that has an earlier response line
\* with another status.
ConflictAt(k) ==
    /\ written[k].tag = "success"
    /\ \E e \in 1..(k - 1) :
           /\ written[e].tag = "api"
           /\ \A m \in (e + 1)..(k - 1) : written[m].tag # "api"
           /\ \E j \in (e + 1)..(k - 1) :
                  /\ written[j].tag = "success"
                  /\ EffectiveStatus(written[j]) # EffectiveStatus(written[k])

\* C11: the parser never gets past a response line whose status differs from
\* that of an earlier response line of the same endpoint (no status group
\* counting as 200, in either order): the pass over that line raises
\* ValueError and parse_apidoc does not return.
C11_TwoStatusGroupsRaise ==
    StatusGroupsAreHttp =>
        \A k \in 1..Len(written) :
            ConflictAt(k) =>
                /\ lineno < k
                /\ phase # "ready"
                /\ (phase = "failed" /\ result.line = k) =>
                       result.outcome = "ValueError"

\* The parse has just failed on a (201) that follows a response line without
\* a status group.
C11_Witness ==
    /\ phase = "failed"
    /\ result.op = "parse_line"
    /\ result.outcome = "ValueError"
    /\ result.line = 3
    /\ written[1].tag = "api"
    /\ written[2].tag = "success" /\ Len(written[2].group) = 0
    /\ written[3].tag = "success" /\ written[3].group = "(201)"

-----------------------------------------------------------------------------
(* Properties of the parsed parameters *)

\* The field of a parameter line is written inside square brackets.
Bracketed(field) ==
    Len(field) > 0 /\ Char(field, 1) = "[" /\ Char(field, Len(field)) = "]"

\* The name a field declares: what is left of it without the brackets, the
\* default and the leading path.
DeclaredName(field) ==
    LET inner  == IF Bracketed(field) THEN SubSeq(field, 2, Len(field) - 1)
                  ELSE field
        name   == split(inner, "=")[1]
        dotted == split(name, ".")
    IN  dotted[Len(dotted)]

\* The key of the group a parameter line names.
DeclaredGroup(group) ==
    IF Len(group) = 0 THEN "parameter"
    ELSE lower(SubSeq(group, 2, Len(group) - 1))

\* The pass over a parameter line has just ended without an exception.
ParamLineParsed ==
    /\ result.op = "parse_line"
    /\ result.outcome = "ok"
    /\ result.line <= Len(written)
    /\ written[result.line].tag = "param"

\* C12: after the pass over a parameter line, the endpoint holds a Param of
\* the declared name in the declared group, and it is optional exactly when
\* the field was written inside square brackets, also when the field carries
\* a default with spaces such as [id="Randomly Generated UUID"].
C12_OptionalIffBracketed ==
    ParamLineParsed =>
        LET it     == written[result.line]
            params == apis[Len(apis)].params
            g      == DeclaredGroup(it.group)
            name   == DeclaredName(it.field)
        IN  /\ g \in DOMAIN params
            /\ name \in DOMAIN params[g]
            /\ params[g][name].is_optional = Bracketed(it.field)

-----------------------------------------------------------------------------
(* Properties of the request dispatcher, continued *)

\* The binding built from the one-endpoint document was taken to user.get and
\* called without arguments; the transport answered 200 {"data": {"hp": 10}}.
OneEndpointScenario ==
    /\ IsCall
    /\ apis = DocOne
    /\ result.from = <<"api", "v3", "user", "get">>
    /\ DOMAIN result.kwargs = {}
    /\ result.res = [status_code |-> 200, json |-> [data |-> [hp |-> 10]]]

\* C13: in that scenario exactly one GET goes to <base>/api/v3/user (the base
\* URL joined with the path without its method selector) with an empty query
\* and no body, and the call returns {"hp": 10}.
C13_OneEndpointEndToEnd ==
    OneEndpointScenario =>
        /\ netCalls = result.callsBefore + 1
        /\ result.request.method = "get"
        /\ result.request.uri = Conf.url \o "/api/v3/user"
        /\ DOMAIN result.request.params = {}
        /\ result.request.data = None
        /\ result.outcome = "ok"
        /\ result.out.value = [hp |-> 10]

C13_Witness ==
    /\ OneEndpointScenario
    /\ result.outcome = "ok"
    /\ netCalls = 1

\* The preconditions of a call hold: the cursor is on an endpoint and no
\* mandatory query parameter is left out.
CallPreconditions ==
    /\ result.at.kind = "ApiEndpoint"
    /\ ~MandatoryOmitted

\* C14: a call makes exactly one transport call when its preconditions hold,
\* whatever status comes back, and none when a precondition fails; never more
\* than one.
C14_AtMostOneTransportCall ==
    IsCall =>
        /\ netCalls - result.callsBefore \in {0, 1}
        /\ CallPreconditions => netCalls = result.callsBefore + 1
        /\ ~CallPreconditions => netCalls = result.callsBefore

\* One transport call was made although the answer was an HTTP error.
C14_Witness ==
    /\ IsCall
    /\ CallPreconditions
    /\ result.outcome = "HTTPError"
    /\ netCalls = result.callsBefore + 1

-----------------------------------------------------------------------------
(* Properties of the tree builder, continued *)

\* The node the builder stands on after the segments `parts` from _node on,
\* None when it had to create one on the way.
RECURSIVE builder_node(_, _)
builder_node(_node, parts) ==
    IF Len(parts) = 0 THEN _node
    ELSE IF _node.kind # "ApiNode" THEN None
    ELSE IF can_into(_node, Head(parts))
    THEN builder_node(into(_node, Head(parts)), Tail(parts))
    ELSE IF IsParamPart(Head(parts)) /\ _node.param # None
    THEN builder_node(_node.param, Tail(parts))
    ELSE None

\* Segment k of descriptor i is parametric and the node it is placed at had,
\* in the tree `t`, a parametric child registered under another name.
ParamConflict(t, i, k) ==
    LET parts == apis[i].parted_uri
        n     == builder_node(t, SubSeq(parts, 1, k - 1))
    IN  /\ IsParamPart(parts[k])
        /\ n.kind = "ApiNode"
        /\ n.param # None
        /\ n.param_name # parts[k]

PlacedWithConflict ==
    /\ result.op = "place"
    /\ \E k \in 1..Len(apis[result.api].parted_uri) :
           ParamConflict(result.before, result.api, k)

-----------------------------------------------------------------------------
(* Properties of can_into *)

\* The names tried at a node: the keys of the index steps.
StepSucceeds(n, name) == ~IsRaised(into(n, name))

\* C16 as claimed: at every node, for every name, can_into tells whether the
\* step with that name succeeds.
C16_CanStepIffStepSucceeds ==
    (phase = "ready" /\ node.kind = "ApiNode") =>
        \A name \in Segments : can_into(node, name) <=> StepSucceeds(node, name)

\* C16 as amended: can_into holds exactly for the names of the literal
\* children and for the registered name of the parametric child; the step
\* succeeds whenever can_into holds, and it also succeeds for every other name
\* at a node that has a parametric child; at a node without one the two
\* agree.
C16_CanStepIsRegisteredName ==
    (phase = "ready" /\ node.kind = "ApiNode") =>
        \A name \in Segments :
            /\ can_into(node, name) <=> name \in keys(node)
            /\ can_into(node, name) => StepSucceeds(node, name)
            /\ node.param # None => StepSucceeds(node, name)
            /\ node.param = None =>
                   (can_into(node, name) <=> StepSucceeds(node, name))

\* The step api.tasks['abracadabra'] has just succeeded through the
\* parametric child, though can_into is false for that name and true for the
\* registered one.
C16_Witness ==
    /\ result.op = "getitem"
    /\ result.arg = "abracadabra"
    /\ result.outcome = "ok"
    /\ result.at.kind = "ApiNode"
    /\ ~can_into(result.at, "abracadabra")
    /\ can_into(result.at, ":taskId")
    /\ node = result.at.param

-----------------------------------------------------------------------------
(* Properties of the arguments of a call *)

QueryNames ==
    IF "query" \in DOMAIN result.at.params
    THEN DOMAIN result.at.params["query"] ELSE {}

\* C17: the arguments named like a declared query parameter make up the
\* query, with their values; the others make up the body of a post, put or
\* delete and are not sent with a get; no argument is in both.
C17_ArgumentsPartitioned ==
    Sent =>
        LET req  == result.request
            rest == DOMAIN result.kwargs \ QueryNames
        IN  /\ DOMAIN req.params = DOMAIN result.kwargs \cap QueryNames
            /\ \A n \in DOMAIN req.params : req.params[n] = result.kwargs[n]
            /\ IF req.method \in {"post", "put", "delete"}
               THEN /\ req.data = json_dumps(Restrict(result.kwargs, rest))
                    /\ DOMAIN req.data.obj \cap DOMAIN req.params = {}
               ELSE req.data = None

\* A post went out with one argument in the query and another in the body.
C17_Witness ==
    /\ Sent
    /\ result.request.method = "post"
    /\ DOMAIN result.request.params = {"type"}
    /\ DOMAIN result.request.data.obj = {"text"}

\* A non-optional parameter of a group other than "query" is not among the
\* arguments.
MandatoryOmittedElsewhere ==
    \E g \in DOMAIN result.at.params \ {"query", "responce"} :
        \E name \in DOMAIN result.at.params[g] :
            /\ ~result.at.params[g][name].is_optional
            /\ name \notin DOMAIN result.kwargs

\* C18 as claimed: a call that leaves out a non-optional parameter of any
\* group fails with the missing-parameter TypeError and the transport is not
\* called.
C18_MissingParameterOfAnyGroup ==
    (IsCall /\ result.at.kind = "ApiEndpoint"
            /\ (MandatoryOmitted \/ MandatoryOmittedElsewhere)) =>
        /\ result.outcome = "TypeError"
        /\ result.request = None
        /\ netCalls = result.callsBefore

\* C18 as amended: only the "query" group is checked.  A call that leaves out
\* a non-optional query parameter fails with the missing-parameter TypeError
\* before the transport is called; a call that leaves out only non-optional
\* parameters of other groups is sent, its body holding the arguments given.
C18_MissingParameterOfQueryGroupOnly ==
    (IsCall /\ result.at.kind = "ApiEndpoint") =>
        IF MandatoryOmitted
        THEN /\ result.outcome = "TypeError"
             /\ result.request = None
             /\ netCalls = result.callsBefore
        ELSE /\ result.outcome # "TypeError"
             /\ result.request # None
             /\ netCalls = result.callsBefore + 1

\* The post that creates a group went out without its non-optional Body
\* parameter.
C18_Witness ==
    /\ Sent
    /\ result.at.method = "post"
    /\ MandatoryOmittedElsewhere
    /\ ~MandatoryOmitted
    /\ netCalls = result.callsBefore + 1

-----------------------------------------------------------------------------
(* TaskId (cli.py) *)

\* str.strip() of the blanks int() ignores around its argument.
RECURSIVE strip(_)
strip(s) ==
    IF startswith(s, " ") THEN strip(SubSeq(s, 2, Len(s)))
    ELSE IF endswith(s, " ") THEN strip(SubSeq(s, 1, Len(s) - 1))
    ELSE s

\* The digits int(e) reads: blanks around and a leading '+' dropped.  A '-'
\* never gets here, a bit that has one is split on it first.
int_text(e) ==
    LET t == strip(e)
    IN  IF startswith(t, "+") THEN SubSeq(t, 2, Len(t)) ELSE t

\* int(e) does not raise ValueError: digits, single underscores between them.
int_valid(e) ==
    LET u == int_text(e)
    IN  /\ Len(u) > 0
        /\ \A i \in 1..Len(u) : contains(Digits, Char(u, i)) \/ Char(u, i) = "_"
        /\ Char(u, 1) # "_"
        /\ Char(u, Len(u)) # "_"
        /\ \A i \in 1..(Len(u) - 1) : ~(Char(u, i) = "_" /\ Char(u, i + 1) = "_")

int_value(e) == int(replace(int_text(e), "_", ""))

\* The elements of a TaskId are int or str: isinstance(e, int) reads the tag.
IntId(n) == [t |-> "int", v |-> n]

StrId(s) == [t |-> "str", v |-> s]

\* range(start, stop), as a list.
range(start, stop) == [i \in 1..(stop - start) |-> start + i - 1]

\* One pass of `for bit in tids.split(',')`: what the bit adds to task_ids,
\* already shifted by the closing `e - 1 if isinstance(e, int) else e`.
bit_ids(bit) ==
    IF contains(bit, "-")
    THEN LET es == split(bit, "-")
         IN  IF Len(es) = 2 /\ \A i \in 1..Len(es) : int_valid(es[i])
             THEN LET r == range(int_value(es[1]), int_value(es[2]) + 1)
                  IN  [i \in 1..Len(r) |-> IntId(r[i] - 1)]
             ELSE <<StrId(bit)>>
    ELSE IF int_valid(bit) THEN <<IntId(int_value(bit) - 1)>>
         ELSE <<StrId(bit)>>

RECURSIVE extend_bits(_)
extend_bits(bits) ==
    IF Len(bits) = 0 THEN <<>>
    ELSE bit_ids(bits[1]) \o extend_bits(Tail(bits))

TaskId(tids) == extend_bits(split(tids, ","))

-----------------------------------------------------------------------------
(* TasksChange (cli.py) *)

NO_TASK_ID == "No task_ids found!"

TASK_ID_INVALID == "Task id {} is invalid"

\* `for tids in task_ids: task_id.extend(tids)`, each argument converted by
\* TaskId as the annotation of main asks.
RECURSIVE extend_task_id(_)
extend_task_id(argv) ==
    IF Len(argv) = 0 THEN <<>>
    ELSE TaskId(argv[1]) \o extend_task_id(Tail(argv))

\* task_uuids.index(tid) + 1, or 0 when tid is no uuid of the list.
uuid_index(tasks, tid) ==
    IF \E i \in 1..Len(tasks) : tasks[i].id = tid
    THEN CHOOSE i \in 1..Len(tasks) :
             tasks[i].id = tid /\ \A j \in 1..(i - 1) : tasks[j].id # tid
    ELSE 0

\* The place of aliases[tid] in tasks (the last task that has the alias), or 0.
alias_index(tasks, tid) ==
    LET has(i) == "alias" \in DOMAIN tasks[i] /\ tasks[i].alias = tid
    IN  IF \E i \in 1..Len(tasks) : has(i)
        THEN CHOOSE i \in 1..Len(tasks) :
                 has(i) /\ \A j \in (i + 1)..Len(tasks) : ~has(j)
        ELSE 0

\* self.changing_tasks[key] = task
setitem(d, key, task) == (key :> task) @@ d

\* The loop `for tid in task_id` of main: the ids to change and
\* self.changing_tasks, or the task id that is invalid, or the IndexError of
\* task_uuids[tid].
RECURSIVE resolve(_, _, _, _)
resolve(task_id, tasks, changing_tasks_ids, changing_tasks) ==
    IF Len(task_id) = 0
    THEN [kind |-> "ok", changing_tasks_ids |-> changing_tasks_ids,
          changing_tasks |-> changing_tasks]
    ELSE LET tid == task_id[1]
             num_tasks == Len(tasks)
             invalid == [kind |-> "invalid", tid |-> tid]
             next(i) == resolve(Tail(task_id), tasks,
                                Append(changing_tasks_ids, tasks[i].id),
                                setitem(changing_tasks, tasks[i].id, tasks[i]))
         IN  IF tid.t = "int"
             THEN IF 0 <= tid.v /\ tid.v <= num_tasks
                  THEN IF tid.v + 1 > Len(tasks)
                       THEN Raised("IndexError")
                       ELSE next(tid.v + 1)
                  ELSE invalid
             ELSE IF uuid_index(tasks, tid.v) # 0
                  THEN next(uuid_index(tasks, tid.v))
                  ELSE IF alias_index(tasks, tid.v) # 0
                       THEN next(alias_index(tasks, tid.v))
                       ELSE invalid

\* The lists whose elements are exactly the members of S, each once: the
\* orders list(set(...)) can give.
Orders(S) ==
    {s \in [1..Cardinality(S) -> S] : \A x \in S : \E i \in DOMAIN s : s[i] = x}

elements(l) == {l[i] : i \in DOMAIN l}

changing_order_keep_list(ids, ids_can_overlap) == {ids}

\* `if not self.ids_can_overlap: changing_tasks_ids = list(set(...))`
changing_order(ids, ids_can_overlap) ==
    IF ~ids_can_overlap THEN Orders(elements(ids)) ELSE {ids}

change_ignores_noop(a, tid) ==
    [a EXCEPT !.op = Append(@, tid), !.log_op = Append(@, tid)]

\* The body of `for tid in changing_tasks_ids`: op unless --dry-run, log_op
\* and its print always.
change(a, tid) ==
    [a EXCEPT !.op = IF ~a.noop THEN Append(@, tid) ELSE @,
              !.log_op = Append(@, tid)]

-----------------------------------------------------------------------------
(* Task-changing commands: what the user types *)

MaxArgs == 2

\* Tasks as the server and get_additional_rewards list them: a uuid and,
\* for some, an alias.
all_tasks ==
    << [id |-> "10-20-30", alias |-> "one"],
       [id |-> "ab-cd-ef", alias |-> "my-alias"],
       [id |-> "c3d4"] >>

\* References as test_data draws them, by 1-based place in all_tasks.
Index(i) == [type |-> "index", a |-> i, b |-> i, text |-> ""]

Range(a, b) == [type |-> "range", a |-> a, b |-> b, text |-> ""]

Id(i) == [type |-> "id", a |-> i, b |-> i, text |-> ""]

Alias(i) == [type |-> "alias", a |-> i, b |-> i, text |-> ""]

\* Anything else the user may type.
Raw(text) == [type |-> "raw", a |-> 0, b |-> 0, text |-> text]

\* str(n) of a natural number.
RECURSIVE str(_)
str(n) ==
    IF n < 10 THEN Char(Digits, n + 1)
    ELSE str(n \div 10) \o Char(Digits, (n % 10) + 1)

render_ref(ref) ==
    CASE ref.type = "index" -> str(ref.a)
      [] ref.type = "range" -> str(ref.a) \o "-" \o str(ref.b)
      [] ref.type = "id" -> all_tasks[ref.a].id
      [] ref.type = "alias" -> all_tasks[ref.a].alias
      [] OTHER -> ref.text

\* One argument: its references, comma-separated.
render_arg(refs) == join(",", [i \in 1..Len(refs) |-> render_ref(refs[i])])

render_args(arguments) ==
    [i \in 1..Len(arguments) |-> render_arg(arguments[i])]

ArgPool ==
    { <<Index(1)>>, <<Index(2)>>, <<Index(3)>>,
      <<Range(1, 3)>>, <<Range(2, 3), Index(2)>>,
      <<Id(1)>>, <<Alias(2)>>, <<Alias(1), Id(3)>>,
      <<Index(0)>>, <<Index(4)>>, <<Range(3, 4)>>, <<Range(2, 1)>>,
      <<Raw("nope")>>, <<Index(1), Raw("9f-00-zz")>> }

ArgLists == UNION {[1..n -> ArgPool] : n \in 0..MaxArgs}

CliInit ==
    /\ \E i \in 0..Len(all_tasks), noop \in BOOLEAN, ids_can_overlap \in BOOLEAN :
           app = [pc |-> "start",
                  noop |-> noop,
                  ids_can_overlap |-> ids_can_overlap,
                  user_tasks |-> SubSeq(all_tasks, 1, i),
                  more_tasks |-> SubSeq(all_tasks, i + 1, Len(all_tasks)),
                  arguments |-> <<>>,
                  argv |-> <<>>,
                  gets |-> 0,
                  changing_tasks |-> <<>>,
                  changing_tasks_ids |-> <<>>,
                  changed |-> 0,
                  op |-> <<>>,
                  log_op |-> <<>>,
                  domain_print |-> 0,
                  error |-> "",
                  returned |-> "" ]
    /\ content = None
    /\ cursors = <<>>
    /\ apis = <<>>
    /\ strict = FALSE
    /\ phase = "new"
    /\ tree = None
    /\ current = <<>>
    /\ node = None
    /\ result = [op |-> "none"]
    /\ netCalls = 0
    /\ placed = 0
    /\ written = <<>>
    /\ lines = <<>>
    /\ lineno = 0

\* main(*task_ids) up to the loop that changes the tasks.
Invoke(arguments) ==
    /\ app.pc = "start"
    /\ LET argv == render_args(arguments)
           task_id == extend_task_id(argv)
           tasks == app.user_tasks \o app.more_tasks
           r == resolve(task_id, tasks, <<>>, <<>>)
           a == [app EXCEPT !.arguments = arguments, !.argv = argv]
       IN  IF Len(task_id) = 0
           THEN app' = [a EXCEPT !.pc = "done", !.error = NO_TASK_ID,
                                 !.returned = "1"]
           ELSE IF IsRaised(r)
           THEN app' = [a EXCEPT !.pc = "done", !.gets = 1,
                                 !.returned = r.exc]
           ELSE IF r.kind = "invalid"
           THEN app' = [a EXCEPT !.pc = "done", !.gets = 1,
                                 !.error = TASK_ID_INVALID,
                                 !.returned = "1"]
           ELSE \E ids \in changing_order(r.changing_tasks_ids,
                                          app.ids_can_overlap) :
                    app' = [a EXCEPT !.pc = "changing", !.gets = 1,
                                     !.changing_tasks = r.changing_tasks,
                                     !.changing_tasks_ids = ids]
    /\ UNCHANGED <<apis, strict, phase, tree, current, node, result, netCalls>>
    /\ UNCHANGED <<placed, written, lines, lineno, content, cursors>>

\* One pass of `for tid in changing_tasks_ids`.
Change ==
    /\ app.pc = "changing"
    /\ app.changed < Len(app.changing_tasks_ids)
    /\ app' = [change(app, app.changing_tasks_ids[app.changed + 1])
                   EXCEPT !.changed = @ + 1]
    /\ UNCHANGED <<apis, strict, phase, tree, current, node, result, netCalls>>
    /\ UNCHANGED <<placed, written, lines, lineno, content, cursors>>

\* self.domain_print() and the return of main.
DomainPrint ==
    /\ app.pc = "changing"
    /\ app.changed = Len(app.changing_tasks_ids)
    /\ app' = [app EXCEPT !.pc = "done", !.domain_print = @ + 1,
                          !.returned = "None"]
    /\ UNCHANGED <<apis, strict, phase, tree, current, node, result, netCalls>>
    /\ UNCHANGED <<placed, written, lines, lineno, content, cursors>>

CliNext ==
    \/ \E arguments \in ArgLists : Invoke(arguments)
    \/ Change
    \/ DomainPrint

SpecCli == CliInit /\ [][CliNext]_vars

-----------------------------------------------------------------------------
(* C19, C20: task-changing commands *)

\* A reference denotes existing tasks: a place 1..N, a range a-b with
\* 1 <= a <= b <= N, the uuid or the alias of a listed task.
Denotes(ref) ==
    LET N == Len(all_tasks)
    IN  CASE ref.type = "index" -> ref.a \in 1..N
          [] ref.type = "range" -> 1 <= ref.a /\ ref.a <= ref.b /\ ref.b <= N
          [] ref.type = "id" -> ref.a \in 1..N
          [] ref.type = "alias" ->
                 ref.a \in 1..N /\ "alias" \in DOMAIN all_tasks[ref.a]
          [] OTHER -> FALSE

\* The ids of the tasks a reference denotes, in order.
Denoted(ref) == [i \in 1..(ref.b - ref.a + 1) |-> all_tasks[ref.a + i - 1].id]

RECURSIVE DenotedByArg(_)
DenotedByArg(refs) ==
    IF Len(refs) = 0 THEN <<>>
    ELSE Denoted(refs[1]) \o DenotedByArg(Tail(refs))

\* The ids the whole argument list refers to, once per reference, in order.
RECURSIVE Referenced(_)
Referenced(arguments) ==
    IF Len(arguments) = 0 THEN <<>>
    ELSE DenotedByArg(arguments[1]) \o Referenced(Tail(arguments))

AllDenote(arguments) ==
    /\ Len(arguments) > 0
    /\ \A i \in 1..Len(arguments) :
           \A j \in 1..Len(arguments[i]) : Denotes(arguments[i][j])

\* l is the list of referenced ids as the command has to go through them:
\* as referenced when ids may overlap, each distinct id once otherwise.
AppliedAsReferenced(l) ==
    LET ref == Referenced(app.arguments)
    IN  IF app.ids_can_overlap
        THEN l = ref
        ELSE /\ elements(l) = elements(ref)
             /\ Len(l) = Cardinality(elements(l))

\* C19: when every reference of the argument list denotes existing tasks
\* (place, range, uuid or alias, comma-separated or as separate arguments),
\* the command ends normally having applied its operation and its log message
\* to exactly the referenced ids -- once per reference in argument order when
\* ids may overlap, once per distinct task otherwise, each of them a key of
\* changing_tasks -- and prints the domain once, after the last of them.
C19_AppliedToReferencedTasks ==
    /\ app.pc = "changing" => app.domain_print = 0
    /\ (app.pc = "done" /\ AllDenote(app.arguments)) =>
           /\ app.returned = "None"
           /\ AppliedAsReferenced(app.log_op)
           /\ ~app.noop => app.op = app.log_op
           /\ elements(app.log_op) \subseteq DOMAIN app.changing_tasks
           /\ app.domain_print = 1

\* A reference is repeated, within a range and by alias, and the ids must not
\* overlap: the command is over, each task changed once.
C19_Witness ==
    /\ app.pc = "done"
    /\ AllDenote(app.arguments)
    /\ ~app.noop
    /\ ~app.ids_can_overlap
    /\ app.arguments = << <<Range(2, 3), Index(2)>>, <<Alias(2)>> >>
    /\ Len(app.op) = 2
    /\ app.domain_print = 1

\* C20: under --dry-run/--noop the operation is never invoked, in any state
\* of the command, while the references are still resolved against the
\* task list read from the server and the log message is printed for each.
C20_DryRunChangesNothing ==
    app.noop =>
        /\ app.op = <<>>
        /\ (app.pc = "done" /\ AllDenote(app.arguments)) =>
               /\ app.gets = 1
               /\ elements(Referenced(app.arguments)) = DOMAIN app.changing_tasks
               /\ AppliedAsReferenced(app.log_op)

C20_Witness ==
    /\ app.pc = "done"
    /\ app.noop
    /\ AllDenote(app.arguments)
    /\ Len(app.log_op) >= 2
    /\ app.op = <<>>

-----------------------------------------------------------------------------
(* Content (cli.py) *)

\* Python values as json.load and the caller give them; isinstance reads t,
\* the value is in the field of its type.
Value(t, s, n, d, l) == [t |-> t, s |-> s, n |-> n, d |-> d, l |-> l]

EmptyDict == [k \in {} |-> k]

Str(s) == Value("str", s, 0, EmptyDict, <<>>)

Num(n) == Value("int", "", n, EmptyDict, <<>>)

Dict(d) == Value("dict", "", 0, d, <<>>)

List(l) == Value("list", "", 0, EmptyDict, l)

\* Content._cache = None, self._obj = None
NoContent == Value("None", "", 0, EmptyDict, <<>>)

\* An exception on its way out of a method of Content.
Exc(name) == Value("raised", name, 0, EmptyDict, <<>>)

\* CONTENT_JSON when it does not exist, and when json.load cannot read it.
NoFile == Value("absent", "", 0, EmptyDict, <<>>)

BadFile == Value("corrupt", "", 0, EmptyDict, <<>>)

\* bool(value) of `if Content._cache and ...`
truthy(value) ==
    CASE value.t = "dict" -> DOMAIN value.d # {}
      [] value.t = "list" -> Len(value.l) > 0
      [] value.t = "str" -> Len(value.s) > 0
      [] value.t = "int" -> value.n # 0
      [] OTHER -> FALSE

\* obj[i] of a dict, a list or a str, i a str or an int.
subscript(obj, i) ==
    IF obj.t = "dict"
    THEN IF i.t = "str" /\ i.s \in DOMAIN obj.d
         THEN obj.d[i.s] ELSE Exc("KeyError")
    ELSE IF obj.t = "list"
    THEN IF i.t # "int" THEN Exc("TypeError")
         ELSE IF 0 <= i.n /\ i.n < Len(obj.l) THEN obj.l[i.n + 1]
         ELSE IF i.n < 0 /\ -i.n <= Len(obj.l) THEN obj.l[Len(obj.l) + i.n + 1]
         ELSE Exc("IndexError")
    ELSE IF obj.t = "str"
    THEN IF i.t # "int" THEN Exc("TypeError")
         ELSE IF 0 <= i.n /\ i.n < Len(obj.s) THEN Str(Char(obj.s, i.n + 1))
         ELSE IF i.n < 0 /\ -i.n <= Len(obj.s)
              THEN Str(Char(obj.s, Len(obj.s) + i.n + 1))
         ELSE Exc("IndexError")
    ELSE Exc("TypeError")

\* Content._get of the object o in the world w (server, cache, file): the
\* content, from Content._cache, from the server or from CONTENT_JSON.
RECURSIVE content_get(_, _)
content_get(o, w) ==
    IF truthy(w.cache) /\ ~o.rebuild_cache
    THEN [o |-> o, w |-> w, ret |-> w.cache]
    ELSE IF w.file.t = "absent" \/ o.rebuild_cache
    THEN [o |-> [o EXCEPT !.fetched = @ + 1],
          w |-> [w EXCEPT !.cache = w.server, !.file = w.server,
                          !.calls = @ + 1],
          ret |-> w.server]
    ELSE IF w.file.t = "corrupt"
    THEN content_get([o EXCEPT !.rebuild_cache = TRUE], w)
    ELSE [o |-> o, w |-> [w EXCEPT !.cache = w.file], ret |-> w.file]

\* `for e in self._path: self._obj = self._obj[e]`: self._obj as the loop
\* leaves it and the exception that ended it ("" when none did).
RECURSIVE walk_path(_, _)
walk_path(obj, path) ==
    IF Len(path) = 0 THEN [obj |-> obj, exc |-> ""]
    ELSE LET e == subscript(obj, path[1])
         IN  IF e.t = "raised" THEN [obj |-> obj, exc |-> e.s]
             ELSE walk_path(e, Tail(path))

\* Content._resolve_path
resolve_path(o, w) ==
    LET g == content_get(o, w)
        p == walk_path(g.ret, o.path)
    IN  [o |-> [g.o EXCEPT !.obj = p.obj], w |-> g.w, exc |-> p.exc]

\* Content(api, rebuild_cache, path): __init__ ends with _resolve_path.
\* fetched counts the requests this object has made to the server.
Content(rebuild_cache, path, w) ==
    resolve_path([rebuild_cache |-> rebuild_cache, path |-> path,
                  obj |-> NoContent, fetched |-> 0], w)

caught_nothing(exc) == FALSE

\* What `except (KeyError, IndexError)` catches.
caught(exc) == exc \in {"KeyError", "IndexError"}

\* Content.__getitem__: the object and the world afterwards, and what the
\* lookup gave: a value, a new Content, or an exception.
RECURSIVE content_getitem(_, _, _)
content_getitem(o, i, w) ==
    LET ret == subscript(o.obj, i)
        child == Content(o.rebuild_cache, Append(o.path, i), w)
        handler(exc, w1) ==
            IF o.rebuild_cache
            THEN [o |-> o, w |-> w1, out |-> Exc(exc)]
            ELSE LET r == resolve_path([o EXCEPT !.rebuild_cache = TRUE], w1)
                 IN  IF r.exc # ""
                     THEN [o |-> r.o, w |-> r.w, out |-> Exc(r.exc)]
                     ELSE content_getitem(r.o, i, r.w)
    IN  IF ret.t = "raised"
        THEN IF caught(ret.s) THEN handler(ret.s, w)
             ELSE [o |-> o, w |-> w, out |-> ret]
        ELSE IF ret.t \in {"list", "dict"}
        THEN IF child.exc = ""
             THEN [o |-> o, w |-> child.w,
                   out |-> [t |-> "Content", o |-> child.o]]
             ELSE IF caught(child.exc) THEN handler(child.exc, child.w)
             ELSE [o |-> o, w |-> child.w, out |-> Exc(child.exc)]
        ELSE [o |-> o, w |-> w, out |-> ret]

-----------------------------------------------------------------------------
(* Content: the server, the cache file and the lookups of a process *)

MaxObjects == 3

MaxFetches == 4

the_key == "this_key_do_not_exist_on_first_run"

\* The contents test_content_cache serves: nothing, then the key.
NoData == Dict(EmptyDict)

Data ==
    Dict(the_key :> Dict(("dict" :> Dict("a" :> Str("b")))
                         @@ ("empty_list" :> List(<<>>))
                         @@ ("objs" :> List(<<Dict("name" :> Str("data"))>>))))

\* A later content where the key holds a plain value.
PlainData == Dict(the_key :> Str("b"))

\* What the server serves, one release of the content after the other.
ServerData == <<NoData, Data, PlainData>>

ContentKeys ==
    {Str(the_key), Str("dict"), Str("a"), Str("tionary"),
     Str("empty_list"), Num(0)}

ContentInit ==
    /\ \E n \in 1..Len(ServerData), file \in {NoFile, BadFile, NoData, Data} :
           content = [server |-> ServerData[n], cache |-> NoContent,
                      file |-> file, objs |-> <<>>]
    /\ cursors = <<>>
    /\ netCalls = 0
    /\ result = [op |-> "none"]
    /\ app = None
    /\ apis = <<>>
    /\ strict = FALSE
    /\ phase = "new"
    /\ tree = None
    /\ current = <<>>
    /\ node = None
    /\ placed = 0
    /\ written = <<>>
    /\ lines = <<>>
    /\ lineno = 0

world == [server |-> content.server, cache |-> content.cache,
          file |-> content.file, calls |-> netCalls]

\* objs with the Content `made` added, while there is room to keep it.
keep(objs, made) ==
    IF Len(objs) < MaxObjects THEN Append(objs, made) ELSE objs

\* content = Content(self.api) and content = Content(self.api, refresh), which
\* a command does once.
NewContent(rebuild_cache) ==
    /\ content.objs = <<>>
    /\ LET c == Content(rebuild_cache, <<>>, world)
       IN  /\ content' = [server |-> c.w.server, cache |-> c.w.cache,
                          file |-> c.w.file,
                          objs |-> IF c.exc = "" THEN keep(content.objs, c.o)
                                   ELSE content.objs]
           /\ netCalls' = c.w.calls
           /\ result' = [op |-> "Content", callsBefore |-> netCalls,
                         outcome |-> IF c.exc = "" THEN "ok" ELSE c.exc]
    /\ UNCHANGED <<apis, strict, phase, tree, current, node>>
    /\ UNCHANGED <<placed, written, lines, lineno, app, cursors>>

\* content.objs[k][i]
Lookup(k, i) ==
    /\ netCalls < MaxFetches
    /\ k \in 1..Len(content.objs)
    /\ LET r == content_getitem(content.objs[k], i, world)
           objs == [content.objs EXCEPT ![k] = r.o]
       IN  /\ content' = [server |-> r.w.server, cache |-> r.w.cache,
                          file |-> r.w.file,
                          objs |-> IF r.out.t = "Content"
                                   THEN keep(objs, r.out.o) ELSE objs]
           /\ netCalls' = r.w.calls
           /\ result' = [op |-> "lookup", k |-> k, i |-> i,
                         self |-> content.objs[k], cache |-> content.cache,
                         callsBefore |-> netCalls, out |-> r.out]
    /\ UNCHANGED <<apis, strict, phase, tree, current, node>>
    /\ UNCHANGED <<placed, written, lines, lineno, app, cursors>>

\* The server gets the next release of the content.
ServerChange(n) ==
    /\ n < Len(ServerData)
    /\ content.server = ServerData[n]
    /\ content' = [content EXCEPT !.server = ServerData[n + 1]]
    /\ result' = [op |-> "server"]
    /\ UNCHANGED <<apis, strict, phase, tree, current, node, netCalls>>
    /\ UNCHANGED <<placed, written, lines, lineno, app, cursors>>

ContentNext ==
    \/ \E rebuild_cache \in BOOLEAN : NewContent(rebuild_cache)
    \/ \E k \in 1..MaxObjects, i \in ContentKeys : Lookup(k, i)
    \/ \E n \in 1..Len(ServerData) : ServerChange(n)

SpecContent == ContentInit /\ [][ContentNext]_vars

-----------------------------------------------------------------------------
(* C21, C30: the content cache *)

IsLookup == result.op = "lookup"

\* KeyError and IndexError, the errors of a lookup that misses.
LookupError(exc) == exc \in {"KeyError", "IndexError"}

\* The key of the lookup is absent from what the object held.
Absent == subscript(result.self.obj, result.i).t = "raised"
          /\ LookupError(subscript(result.self.obj, result.i).s)

\* The object of the lookup, afterwards.
Self == content.objs[result.k]

\* What the path of the object leads to in the content the server serves,
\* and what the key leads to from there.
Fresh == walk_path(content.server, result.self.path)

FreshValue == subscript(Fresh.obj, result.i)

FreshHasKey == Fresh.exc = "" /\ FreshValue.t # "raised"

FreshLacksKey ==
    \/ LookupError(Fresh.exc)
    \/ Fresh.exc = "" /\ FreshValue.t = "raised" /\ LookupError(FreshValue.s)

\* The lookup gave the value v: v itself, or a Content that holds it when it
\* is a list or a dict.
Gave(v) ==
    IF v.t \in {"list", "dict"}
    THEN result.out.t = "Content" /\ result.out.o.obj = v
    ELSE result.out.t # "Content" /\ result.out = v

GaveError == result.out.t = "raised" /\ LookupError(result.out.s)

-----------------------------------------------------------------------------
(* C22: the cursor invariant *)

IsAnyStep == result.op \in {"getattr", "getitem", "getitem_tuple"}

\* The segments a step asks for: the segment an attribute name stands for,
\* the key, or the keys of the list.
Stepped ==
    CASE result.op = "getattr" -> <<attr_segment(result.arg)>>
      [] result.op = "getitem" -> <<result.arg>>
      [] OTHER -> result.arg

\* The child a segment leads to: the literal child of that name, the
\* parametric child otherwise.
RECURSIVE Reached(_, _)
Reached(n, path) ==
    IF Len(path) = 0 THEN n
    ELSE Reached(IF Head(path) \in DOMAIN n.paths THEN n.paths[Head(path)]
                 ELSE n.param,
                 Tail(path))

-----------------------------------------------------------------------------
(* Several cursors on one shared tree *)

MaxCursors == 3

\* A cursor as the caller holds it: position, node and strict flag.
cursor_of(c, strict_) ==
    [kind |-> "Habitipy", current |-> c.current, node |-> c.node,
     strict |-> strict_]

\* A mutant of with_cursor: the step moves the cursor it is made on.
with_cursor_in_place(cursors_, k, c) == [cursors_ EXCEPT ![k] = c]

\* `return self.__class__(...)`: a step makes a new cursor beside the others.
with_cursor(cursors_, k, c) == Append(cursors_, c)

SharedNames == {"user", "class_", "tasks", "get", "abracadabra"}

SharedKeys == {"user", "class", "tasks", "get", "score"}

SharedLists == {<<"user", "get">>, <<"tasks", "abracadabra", "get">>}

SharedInit ==
    /\ apis \in {DocMain, DocOne}
    /\ strict \in BOOLEAN
    /\ phase = "ready"
    /\ tree = make_apis_dict(apis, strict)
    /\ cursors = <<cursor_of(Habitipy(tree, <<>>), strict)>>
    /\ current = <<>>
    /\ node = None
    /\ result = [op |-> "none"]
    /\ netCalls = 0
    /\ placed = Len(apis)
    /\ written = <<>>
    /\ lines = <<>>
    /\ lineno = 0
    /\ app = None
    /\ content = None

\* A step by cursor k.
SharedStep(k, op, arg, c) ==
    /\ k \in 1..Len(cursors)
    /\ Len(cursors) < MaxCursors
    /\ result' = [op |-> op, k |-> k, arg |-> arg, before |-> cursors,
                  callsBefore |-> netCalls, out |-> c]
    /\ cursors' = IF IsRaised(c) THEN cursors
                  ELSE with_cursor(cursors, k, cursor_of(c, DefaultStrict))
    /\ UNCHANGED <<apis, strict, phase, tree, current, node, netCalls>>
    /\ UNCHANGED <<placed, written, lines, lineno, app, content>>

SharedGetAttr(k, val) ==
    /\ k \in 1..Len(cursors)
    /\ SharedStep(k, "getattr", val, getattr(tree, cursors[k], val))

SharedGetItem(k, val) ==
    /\ k \in 1..Len(cursors)
    /\ SharedStep(k, "getitem", val, getitem(tree, cursors[k], val))

SharedGetItemTuple(k, val) ==
    /\ k \in 1..Len(cursors)
    /\ SharedStep(k, "getitem_tuple", val, getitem_tuple(tree, cursors[k], val))

\* What an operation that makes no cursor leaves behind.
SharedRead(k, op, arg, out) ==
    /\ result' = [op |-> op, k |-> k, arg |-> arg, before |-> cursors,
                  callsBefore |-> netCalls, out |-> out]
    /\ UNCHANGED <<apis, strict, phase, tree, current, node, cursors>>
    /\ UNCHANGED <<placed, written, lines, lineno, app, content>>

\* cursors[k]._node.can_into(val)
SharedCanStep(k, val) ==
    /\ k \in 1..Len(cursors)
    /\ cursors[k].node.kind = "ApiNode"
    /\ SharedRead(k, "can_into", val,
                  [kind |-> "bool", value |-> can_into(cursors[k].node, val)])
    /\ UNCHANGED netCalls

\* dir(cursors[k])
SharedListKeys(k) ==
    /\ k \in 1..Len(cursors)
    /\ SharedRead(k, "dir", "", dir(cursors[k]))
    /\ UNCHANGED netCalls

\* cursors[k](**kwargs), answered res.
SharedInvoke(k, kwargs, res) ==
    /\ k \in 1..Len(cursors)
    /\ netCalls < MaxCalls
    /\ LET r == call(Conf, cursors[k], cursors[k].strict, kwargs, res)
       IN  /\ SharedRead(k, "call", [kwargs |-> kwargs, res |-> res],
                         [kind |-> "called", request |-> r.request,
                          out |-> r.out])
           /\ netCalls' = netCalls + r.calls

SharedNext ==
    \/ \E k \in 1..MaxCursors, val \in SharedNames : SharedGetAttr(k, val)
    \/ \E k \in 1..MaxCursors, val \in SharedKeys : SharedGetItem(k, val)
    \/ \E k \in 1..MaxCursors, val \in SharedLists : SharedGetItemTuple(k, val)
    \/ \E k \in 1..MaxCursors, val \in SharedKeys : SharedCanStep(k, val)
    \/ \E k \in 1..MaxCursors : SharedListKeys(k)
    \/ \E k \in 1..MaxCursors, kwargs \in Kwargs, res \in Responses :
           SharedInvoke(k, kwargs, res)

SpecShared == SharedInit /\ [][SharedNext]_vars

\* The cursor a caller gets at `path` on a tree built for it alone.
Alone(path, strict_) ==
    cursor_of(Habitipy(make_apis_dict(apis, strict), path), strict_)

\* What the last operation gives when it is run alone, by a cursor of its own
\* on a tree of its own.
RunAlone ==
    LET c == Alone(result.before[result.k].current,
                   result.before[result.k].strict)
        t == make_apis_dict(apis, strict)
    IN  CASE result.op = "getattr" -> getattr(t, c, result.arg)
          [] result.op = "getitem" -> getitem(t, c, result.arg)
          [] result.op = "getitem_tuple" -> getitem_tuple(t, c, result.arg)
          [] result.op = "can_into" ->
                 [kind |-> "bool", value |-> can_into(c.node, result.arg)]
          [] result.op = "dir" -> dir(c)
          [] result.op = "call" ->
                 LET r == call(Conf, c, c.strict, result.arg.kwargs,
                               result.arg.res)
                 IN  [kind |-> "called", request |-> r.request, out |-> r.out]

-----------------------------------------------------------------------------
(* C24: the order of the descriptor list *)

\* A tree without the marks the model gives its nodes: children by name, the
\* parametric child and its registered name, the descriptors at the leaves.
RECURSIVE Shape(_)
Shape(n) ==
    IF n.kind # "ApiNode" THEN n
    ELSE [kind |-> "ApiNode",
          paths |-> [k \in DOMAIN n.paths |-> Shape(n.paths[k])],
          param_name |-> IF n.param = None THEN {} ELSE {n.param_name},
          param |-> IF n.param = None THEN None ELSE Shape(n.param)]

Orderings(n) ==
    {p \in [1..n -> 1..n] : \A i, j \in 1..n : p[i] = p[j] => i = j}

Permuted(p) == [i \in 1..Len(apis) |-> apis[p[i]]]

\* The tree built from the list in the order p is the tree in hand.
SameTree(p) ==
    LET t == make_apis_dict(Permuted(p), strict)
    IN  ~IsRaised(t) /\ Shape(t) = Shape(tree)

\* Two descriptors want the same place in the tree: the same method at the
\* end of the same route, a method spelled as the segment the other goes on
\* with, or two names for the parametric segment at one position.
Conflict(a, b) ==
    \/ a # b /\ a.method = b.method /\ SameRoute(a.parted_uri, b.parted_uri)
    \/ \E k \in 0..(Len(a.parted_uri) - 1) :
           /\ SameRoute(b.parted_uri, SubSeq(a.parted_uri, 1, k))
           /\ b.method = a.parted_uri[k + 1]
    \/ \E k \in 1..Len(a.parted_uri) :
           /\ k <= Len(b.parted_uri)
           /\ SameRoute(SubSeq(a.parted_uri, 1, k), SubSeq(b.parted_uri, 1, k))
           /\ IsParamPart(a.parted_uri[k])
           /\ a.parted_uri[k] # b.parted_uri[k]

NoConflicts ==
    \A i, j \in 1..Len(apis) : ~Conflict(apis[i], apis[j])

\* C24 as stated: the tree built from any permutation of the descriptor list
\* is the tree built from the list.
C24_OrderIndependent ==
    phase = "ready" => \A p \in Orderings(Len(apis)) : SameTree(p)

\* C24, amended: the tree built from any permutation of the descriptor list
\* is the tree built from the list, when no two descriptors of the list want
\* the same place in the tree.
C24_OrderIndependentWithoutConflicts ==
    (phase = "ready" /\ NoConflicts) =>
        \A p \in Orderings(Len(apis)) : SameTree(p)

\* Three different descriptors, a parametric segment among them, no conflict.
C24_Witness ==
    /\ phase = "ready"
    /\ NoConflicts
    /\ Len(apis) = 3
    /\ apis[1] # apis[2] /\ apis[2] # apis[3] /\ apis[1] # apis[3]
    /\ tree.paths["api"].paths["v3"].paths["tasks"].param # None
    /\ \A p \in Orderings(3) : SameTree(p)

-----------------------------------------------------------------------------
(* C25: the two dispatchers *)

IsCallAsync == result.op = "call_async"

\* What the dispatcher in hand did: the request, the calls of the transport,
\* the outcome.
Did == [calls |-> netCalls - result.callsBefore, request |-> result.request,
        out |-> result.out]

ResultCursor == [kind |-> "Habitipy", current |-> result.from, node |-> result.at]

-----------------------------------------------------------------------------
(* C26: malformed declaration lines *)

ParsedLine == lines[result.line]

TooFewTokens(line) == Len(split(line, " ")) < 3

OutsidePrefix(line) ==
    /\ ~TooFewTokens(line)
    /\ ~startswith(split(line, " ")[3], API_URI_BASE)

MalformedDeclaration(line) ==
    /\ startswith(line, "@api ")
    /\ TooFewTokens(line) \/ OutsidePrefix(line)

\* C26: the pass over a malformed declaration line (too few tokens, or a URL
\* outside the /api/v3 prefix) raises and ends the parse in strict mode, and
\* in non-strict mode goes on to the next line.
C26_MalformedDeclarationByStrictness ==
    (result.op = "parse_line" /\ MalformedDeclaration(ParsedLine)) =>
        IF strict
        THEN result.outcome # "ok" /\ phase = "failed"
        ELSE result.outcome = "ok" /\ phase = "new" /\ lineno = result.line

\* The part of C26 the parser keeps: a URL outside the prefix, on a line with
\* its three tokens, raises in strict mode and is passed over otherwise.
C26_OutsidePrefixByStrictness ==
    (result.op = "parse_line" /\ startswith(ParsedLine, "@api ")
        /\ OutsidePrefix(ParsedLine)) =>
        IF strict
        THEN result.outcome = "UserWarning" /\ phase = "failed"
        ELSE result.outcome = "ok" /\ phase = "new" /\ lineno = result.line

-----------------------------------------------------------------------------
(* C27: the strict flag along a navigation *)

\* C27: the cursor a step returns has the strict flag of the cursor the step
\* was made from, so that a call from it treats a status mismatch as a call
\* from a cursor constructed there with that flag does.
C27_StrictInherited ==
    (IsAnyStep /\ result.outcome = "ok") => strict = result.strict

-----------------------------------------------------------------------------
(* C28, C29: invalid task references *)

\* A numeric reference with a place outside 1..N: a single place, or a
\* forward range that leaves 1..N.
OutsideNumeric(ref) ==
    LET N == Len(all_tasks)
    IN  CASE ref.type = "index" -> ref.a \notin 1..N
          [] ref.type = "range" -> ref.a <= ref.b /\ (ref.a < 1 \/ ref.b > N)
          [] OTHER -> FALSE

\* A reference that is invalid: a place outside 1..N, or a text that is
\* neither a uuid nor an alias of a listed task.
InvalidRef(ref) == OutsideNumeric(ref) \/ ref.type = "raw"

SomeRef(arguments, P(_)) ==
    \E i \in 1..Len(arguments) :
        \E j \in 1..Len(arguments[i]) : P(arguments[i][j])

\* C28: when a reference of the argument list is invalid, the command ends
\* with the invalid-id error and return code 1 and has applied its operation
\* and its log message to no task; in no state of the command has the
\* operation been applied while a reference is invalid.
C28_InvalidReferenceChangesNothing ==
    /\ SomeRef(app.arguments, InvalidRef) =>
           /\ app.pc = "done"
           /\ app.error = TASK_ID_INVALID
           /\ app.returned = "1"
    /\ (app.op # <<>> \/ app.log_op # <<>>) =>
           ~SomeRef(app.arguments, InvalidRef)

\* C29: a numeric reference outside 1..N ends the command with the
\* invalid-id error and return code 1, whatever the other references are,
\* unless one before it was rejected with that same outcome.
C29_OutsideIndexRejected ==
    (app.pc = "done" /\ SomeRef(app.arguments, OutsideNumeric)) =>
        /\ app.returned \in {"1"}
        /\ app.error = TASK_ID_INVALID

\* What holds of C28 and C29 with the place N+1 left aside: the operation is
\* never applied while a reference is invalid, and the command ends with the
\* error and return code 1 or with the IndexError of the place N+1.
CliRejectsOrRaises ==
    /\ SomeRef(app.arguments, InvalidRef) =>
           /\ app.pc = "done"
           /\ app.op = <<>> /\ app.log_op = <<>>
           /\ \/ app.returned = "1" /\ app.error = TASK_ID_INVALID
              \/ app.returned = "IndexError"

-----------------------------------------------------------------------------
(* C30: lookups of present keys *)

\* The key of the lookup is present in what the object held.
Present == subscript(result.self.obj, result.i).t # "raised"

\* C30: a lookup of a key present in the content the object holds, at any
\* depth and after any lookups before it, makes no network call.
C30_PresentKeyNoNetworkCall ==
    (IsLookup /\ Present) => netCalls = result.callsBefore

=============================================================================
